---------------------------- MODULE Spec2Model ----------------------------
(***************************************************************************)
(* Model of cy-convert: in src/src/ipws.rs the varint codec, the binary    *)
(* weight / polytope-info pair (read_weights, read_polytope_info), the     *)
(* three-tier merge of write_weights and the columnar files (write_parquet,*)
(* read_parquet); in src/src/palp.rs the columnar file of vertex lists and *)
(* the text format (format_palp, parse_palp).                              *)
(*                                                                         *)
(* An unsigned 32-bit value is a record [hi, lo]: bit 31 and bits 0..30,   *)
(* so that shifts, masks and the lost-bit test of read_varint are computed *)
(* at the width the code computes them.  Bytes are 0..255.                 *)
(***************************************************************************)
EXTENDS Integers, Sequences, FiniteSets, TLC

VARIABLES
    \* ---- varint codec harness
    vpc,        \* "encode" | "decode" | "done"
    vx,         \* the u32 handed to write_varint, or NoU32
    vbuf,       \* the byte buffer read_varint reads
    vtail,      \* bytes that follow the encoding in the buffer
    vout,       \* the outcome of read_varint
    \* ---- main: the conversion in progress
    pc,                     \* position in main / write_weights / readers
    dimension,              \* dimension handed to write_weights
    numerator,              \* index numerator (i32)
    denominator,            \* index denominator (i32)
    non_ip,                 \* NonIpPolytopeInfo handed to write_weights
    non_reflexive,          \* NonReflexivePolytopeInfo
    reflexive,              \* ReflexivePolytopeInfo
    include_derived_quantities,    \* args.include_derived_quantities
    \* ---- write_weights locals
    non_ip_pos, non_reflexive_pos, reflexive_pos,
    non_ip_weights, non_reflexive_weights, reflexive_weights,
    ws_buf, pi_buf,
    \* ---- the binary pair on disk
    ws_file, pi_file,
    \* ---- read_weights / read_polytope_info
    limit,                  \* args.limit, usize::MAX when absent
    read_dimension,         \* dimension returned by read_weights
    index,                  \* index string returned by read_weights
    weights,                \* flat weight array returned by read_weights
    cursor,                 \* next byte of the info stream (from 1)
    chunk,                  \* weight chunks consumed by read_polytope_info
    read_non_ip, read_non_reflexive, read_reflexive,
    outcome,                \* how the run ended: ok, Err(..) or panic
    \* ---- write_parquet / read_parquet (ipws.rs)
    row_group_size,         \* ROW_GROUP_SIZE
    parquet_non_ip_out,     \* the three columnar files write_parquet wrote
    parquet_non_reflexive_out,
    parquet_reflexive_out,
    parquet_in,             \* args.parquet_in: the columnar files to read
    shard,                  \* files of parquet_in read so far
    io_fails,               \* the outputs the file system refuses to write
    \* ---- palp.rs
    polytope_info,          \* PolytopeInfo handed to palp write_parquet
    palp_parquet,           \* the columnar file it wrote
    palp_info,              \* PolytopeInfo read back by palp read_parquet
    palp_text               \* the text format_palp wrote / parse_palp reads

varintVars == <<vpc, vx, vbuf, vtail, vout>>

datasetVars == <<dimension, numerator, denominator,
                 non_ip, non_reflexive, reflexive,
                 include_derived_quantities>>

mergeVars == <<non_ip_pos, non_reflexive_pos, reflexive_pos,
               non_ip_weights, non_reflexive_weights, reflexive_weights,
               ws_buf, pi_buf>>

fileVars == <<ws_file, pi_file>>

readVars == <<limit, read_dimension, index, weights, cursor, chunk,
              read_non_ip, read_non_reflexive, read_reflexive, outcome>>

parquetVars == <<row_group_size, parquet_non_ip_out,
                 parquet_non_reflexive_out, parquet_reflexive_out,
                 parquet_in, shard, io_fails>>

palpVars == <<polytope_info, palp_parquet, palp_info, palp_text>>

columnarVars == <<parquetVars, palpVars>>

vars == <<varintVars, pc, datasetVars, mergeVars, fileVars, readVars,
          columnarVars>>

-----------------------------------------------------------------------------
(* Widths and bit-level helpers                                            *)

\* u32: the type of read_varint's accumulator and of write_varint's value
U32Bits == 32

\* a varint byte carries 7 payload bits (pos += 7, value >>= 7)
GroupBits == 7

\* the continuation flag of a varint byte (v & 128, | 128)
ContinuationBit == 128

\* the largest i32, 2^31 - 1
MaxI32 == 2147483647

\* args.limit.unwrap_or(usize::MAX), line 823: a limit no count of the model
\* reaches
NoLimit == MaxI32

\* a tier that holds nothing: before the readers run and after they failed
NoTier == [dimension |-> 0, weight_lists |-> <<>>]

\* no columnar file at a path
NoFile == [exists |-> FALSE, metadata |-> <<>>, schema |-> <<>>,
           row_groups |-> <<>>]

\* no PolytopeInfo of palp.rs
NoInfo == [dimension |-> 0, coordinate_list |-> <<>>]

\* 2^(i-1) for i in 1..31
PowersOfTwo ==
    <<1, 2, 4, 8, 16, 32, 64, 128, 256, 512, 1024, 2048, 4096, 8192, 16384,
      32768, 65536, 131072, 262144, 524288, 1048576, 2097152, 4194304,
      8388608, 16777216, 33554432, 67108864, 134217728, 268435456,
      536870912, 1073741824>>

\* a u32: bit 31 (hi) and bits 0..30 as a number (lo)
U32 == [hi : {0, 1}, lo : 0..MaxI32]

Zero32 == [hi |-> 0, lo |-> 0]

\* where a u32 is expected and there is none
NoU32 == [hi |-> -1, lo |-> 0]

\* u32::from(v) for a byte v, or any non-negative integer below 2^31
U32FromNat(n) == [hi |-> 0, lo |-> n]

\* a & 127 on u32
MaskPayload(a) == [hi |-> 0, lo |-> a.lo % ContinuationBit]

\* bitwise or of two numbers below 2^31
RECURSIVE OrNat(_, _)
OrNat(a, b) ==
    IF a = 0 THEN b
    ELSE IF b = 0 THEN a
    ELSE (IF (a % 2) = 1 \/ (b % 2) = 1 THEN 1 ELSE 0)
            + 2 * OrNat(a \div 2, b \div 2)

\* a | b on u32
BitOr(a, b) ==
    [hi |-> IF a.hi = 1 \/ b.hi = 1 THEN 1 ELSE 0, lo |-> OrNat(a.lo, b.lo)]

\* a << n on u32 for n < 32: the bits shifted past bit 31 are dropped
Shl(a, n) ==
    IF n = 0 THEN a
    ELSE [hi |-> (a.lo \div PowersOfTwo[U32Bits - n]) % 2,
          lo |-> (a.lo % PowersOfTwo[U32Bits - n]) * PowersOfTwo[n + 1]]

\* a >> n on u32 for n < 32
Shr(a, n) ==
    IF n = 0 THEN a
    ELSE [hi |-> 0,
          lo |-> (a.lo \div PowersOfTwo[n + 1])
                    + a.hi * PowersOfTwo[U32Bits - n]]

\* value > 127 on u32
ExceedsPayload(a) == a.hi = 1 \/ a.lo >= ContinuationBit

\* value as u8: the low eight bits as a byte
LowByte(a) == a.lo % 256

-----------------------------------------------------------------------------
(* write_varint, ipws.rs:159-166                                           *)

\* write_varint shifting a whole byte out per step (value >>= 8)
RECURSIVE write_varint_shift8(_)
write_varint_shift8(value) ==
    IF ExceedsPayload(value)
    THEN <<(LowByte(value) % ContinuationBit) + ContinuationBit>>
             \o write_varint_shift8(Shr(value, GroupBits + 1))
    ELSE <<LowByte(value)>>

RECURSIVE write_varint(_)
write_varint(value) ==
    IF ExceedsPayload(value)
    THEN \* data.put_u8(value as u8 | 128); value >>= 7
         <<(LowByte(value) % ContinuationBit) + ContinuationBit>>
             \o write_varint(Shr(value, GroupBits))
    ELSE \* data.put_u8(value as u8)
         <<LowByte(value)>>

-----------------------------------------------------------------------------
(* read_varint, ipws.rs:135-157                                            *)
(*                                                                         *)
(* The outcome is [kind |-> "ok", value, next] (the value and the position *)
(* of the first byte not consumed) or [kind |-> "panic", msg]: the process *)
(* is aborted by panic!("varint read error") or by Buf::get_u8 on an       *)
(* exhausted buffer.                                                       *)

\* panic!("varint read error"), line 146
PanicVarint == [kind |-> "panic", msg |-> "varint read error"]

\* Buf::get_u8 / get_u32 / get_u64 with too few bytes remaining
PanicBuffer == [kind |-> "panic", msg |-> "buffer exhausted"]

\* One iteration of the loop with accumulator ret, shift pos, cursor at.
\* For pos >= 32, `w << pos` aborts a build with overflow checks and shifts
\* by pos % 32 otherwise; in both builds checked_shr(pos) is then None, which
\* differs from Some(w): every build panics.
RECURSIVE read_varint_loop(_, _, _, _)
read_varint_loop(data, ret, pos, at) ==
    IF at > Len(data) THEN PanicBuffer
    ELSE
      LET v == data[at]
          w == MaskPayload(U32FromNat(v))
      IN  IF pos >= U32Bits THEN PanicVarint
          ELSE
            LET ret2 == BitOr(ret, Shl(w, pos))
            IN  IF Shr(ret2, pos) # w THEN PanicVarint
                ELSE IF v < ContinuationBit
                THEN [kind |-> "ok", value |-> ret2, next |-> at + 1]
                ELSE read_varint_loop(data, ret2, pos + GroupBits, at + 1)

\* read_varint without the lost-bit test: bits shifted past bit 31 vanish
RECURSIVE read_varint_truncating_loop(_, _, _, _)
read_varint_truncating_loop(data, ret, pos, at) ==
    IF at > Len(data) THEN PanicBuffer
    ELSE
      LET v == data[at]
          w == MaskPayload(U32FromNat(v))
          ret2 == IF pos >= U32Bits THEN ret ELSE BitOr(ret, Shl(w, pos))
      IN  IF v < ContinuationBit
          THEN [kind |-> "ok", value |-> ret2, next |-> at + 1]
          ELSE read_varint_truncating_loop(data, ret2, pos + GroupBits, at + 1)

read_varint_truncating(data, at) ==
    read_varint_truncating_loop(data, Zero32, 0, at)

read_varint(data, at) == read_varint_loop(data, Zero32, 0, at)

-----------------------------------------------------------------------------
(* Varint harness: inputs                                                  *)

\* the longest raw byte sequence handed to read_varint
MaxBytes == 6

\* 2^k - 1 as a u32, k in 0..32
LowOnes(k) ==
    IF k = U32Bits THEN [hi |-> 1, lo |-> MaxI32]
    ELSE IF k = U32Bits - 1 THEN [hi |-> 0, lo |-> MaxI32]
    ELSE [hi |-> 0, lo |-> PowersOfTwo[k + 1] - 1]

\* 2^k as a u32, k in 0..31
OneHot(k) ==
    IF k = U32Bits - 1 THEN [hi |-> 1, lo |-> 0]
    ELSE [hi |-> 0, lo |-> PowersOfTwo[k + 1]]

\* 2^k + 1 as a u32, k in 1..31
OneHotPlusOne(k) == [OneHot(k) EXCEPT !.lo = @ + 1]

\* 0xAAAAAAAA with its low k bits cleared: mixed groups
Alternating(k) ==
    [hi |-> 1, lo |-> (715827882 \div PowersOfTwo[k + 1]) * PowersOfTwo[k + 1]]

\* the u32 values encoded: every power of two, its neighbours, 0, 2^32-1
BoundaryValues ==
    {LowOnes(k) : k \in 0..U32Bits}
      \cup {OneHot(k) : k \in 0..(U32Bits - 1)}
      \cup {OneHotPlusOne(k) : k \in 1..(U32Bits - 1)}
      \cup {Alternating(k) : k \in 0..(U32Bits - 2)}

\* bytes that may follow an encoding in the buffer
Tails == {<<>>, <<255>>, <<1, 128>>}

\* the bytes raw sequences are made of: final bytes (0, 15, 16) and continued
\* bytes (143, 255) whose payload fits (0, 15, 143) or does not fit (16, 255)
\* the four bits a fifth byte has left in a u32
RawBytes == {0, 15, 16, 143, 255}

RECURSIVE SeqsUpTo(_, _)
SeqsUpTo(S, n) ==
    IF n = 0 THEN {<<>>}
    ELSE LET shorter == SeqsUpTo(S, n - 1)
         IN  shorter \cup {Append(s, x) : s \in shorter, x \in S}

RawVarints == SeqsUpTo(RawBytes, MaxBytes)

\* the outcome of a read: kind is "running", "ok", "err" (an Err returned to
\* main, which ends the conversion) or "panic" (the process is aborted); a
\* failure names its file and, when it arose reading a varint, the position
\* of that varint's first byte (otherwise 0)
Running == [kind |-> "running", msg |-> "", file |-> "", at |-> 0]

\* the columnar side before it runs
ColumnarFilesIdle ==
    /\ row_group_size = 0
    /\ parquet_non_ip_out = NoFile
    /\ parquet_non_reflexive_out = NoFile
    /\ parquet_reflexive_out = NoFile
    /\ parquet_in = <<>> /\ shard = 0
    /\ polytope_info = NoInfo /\ palp_parquet = NoFile /\ palp_info = NoInfo
    /\ palp_text = <<>>

\* the columnar side before it runs; the file system refuses nothing
ColumnarIdle == ColumnarFilesIdle /\ io_fails = {}

\* the readers before they run
ReadIdle ==
    /\ read_dimension = 0 /\ index = <<>> /\ weights = <<>>
    /\ cursor = 1 /\ chunk = 0
    /\ read_non_ip = NoTier /\ read_non_reflexive = NoTier
    /\ read_reflexive = NoTier
    /\ outcome = Running

\* the variables of the conversion while only the codec is exercised
ConversionIdle ==
    /\ pc = "idle"
    /\ dimension = 0 /\ numerator = 0 /\ denominator = 0
    /\ non_ip = <<>> /\ non_reflexive = <<>> /\ reflexive = <<>>
    /\ include_derived_quantities = FALSE
    /\ limit = NoLimit
    /\ non_ip_pos = 0 /\ non_reflexive_pos = 0 /\ reflexive_pos = 0
    /\ non_ip_weights = <<>> /\ non_reflexive_weights = <<>>
    /\ reflexive_weights = <<>>
    /\ ws_buf = <<>> /\ pi_buf = <<>>
    /\ ws_file = <<>> /\ pi_file = <<>>
    /\ ReadIdle
    /\ ColumnarIdle

InitVarint ==
    /\ ConversionIdle
    /\ vout = <<>>
    /\ \/ /\ vpc = "encode"
          /\ vx \in BoundaryValues
          /\ vtail \in Tails
          /\ vbuf = <<>>
       \/ /\ vpc = "decode"
          /\ vx = NoU32
          /\ vtail = <<>>
          /\ vbuf \in RawVarints

\* write_varint(&mut buf, x), then the bytes that follow in the stream
VarintEncode ==
    /\ vpc = "encode"
    /\ vbuf' = write_varint(vx) \o vtail
    /\ vpc' = "decode"
    /\ UNCHANGED <<vx, vtail, vout>>
    /\ UNCHANGED <<pc, datasetVars, mergeVars, fileVars, readVars,
                   columnarVars>>

\* read_varint(&mut buf) from the start of the buffer
VarintDecode ==
    /\ vpc = "decode"
    /\ vout' = read_varint(vbuf, 1)
    /\ vpc' = "done"
    /\ UNCHANGED <<vx, vtail, vbuf>>
    /\ UNCHANGED <<pc, datasetVars, mergeVars, fileVars, readVars,
                   columnarVars>>

NextVarint == VarintEncode \/ VarintDecode

SpecVarint == InitVarint /\ [][NextVarint]_vars

-----------------------------------------------------------------------------
(* Integer casts                                                           *)

\* w as u32 for an i32 w: two's complement
U32FromI32(n) ==
    IF n >= 0 THEN [hi |-> 0, lo |-> n]
    ELSE [hi |-> 1, lo |-> (n + MaxI32) + 1]

\* i32::try_from(u) succeeds: the value is below 2^31
FitsI32(u) == u.hi = 0

\* the i32 that i32::try_from(u) yields when it succeeds
I32FromU32(u) == u.lo

\* put_u32: four bytes, most significant first
PutU32(u) ==
    <<u.hi * ContinuationBit + (u.lo \div PowersOfTwo[25]),
      (u.lo \div PowersOfTwo[17]) % 256,
      (u.lo \div PowersOfTwo[9]) % 256,
      u.lo % 256>>

\* put_u64 of a usize count; the counts of the model are below 2^31
PutU64(n) == <<0, 0, 0, 0>> \o PutU32(U32FromNat(n))

-----------------------------------------------------------------------------
(* Tier structures, ipws.rs:51-125                                         *)

\* Vec::resize(n, Vec::new()) on a list of columns
ResizeLists(lists, n) ==
    [i \in 1..n |-> IF i <= Len(lists) THEN lists[i] ELSE <<>>]

\* ReflexivePolytopeInfo::resize: one more list for h22 in six dimensions
hodge_number_lists_count(dim, derived) ==
    (dim - 3) + (IF dim = 6 /\ derived THEN 1 ELSE 0)

NonIpPolytopeInfo_new(dim) ==
    [dimension |-> dim, weight_lists |-> ResizeLists(<<>>, dim)]

NonReflexivePolytopeInfo_new(dim) ==
    [dimension |-> dim, weight_lists |-> ResizeLists(<<>>, dim),
     vertex_count_list |-> <<>>, facet_count_list |-> <<>>,
     point_count_list |-> <<>>]

ReflexivePolytopeInfo_new(dim, derived) ==
    [dimension |-> dim, weight_lists |-> ResizeLists(<<>>, dim),
     vertex_count_list |-> <<>>, facet_count_list |-> <<>>,
     point_count_list |-> <<>>, dual_point_count_list |-> <<>>,
     hodge_number_lists |->
        ResizeLists(<<>>, hodge_number_lists_count(dim, derived)),
     euler_characteristic_list |-> <<>>]

\* euler_characteristic and hodge_number_h22, ipws.rs:127-133 (i32; the
\* Hodge numbers of the model stay far below the range where i32 overflows)
euler_characteristic(h11, h12, h13) == 48 + 6 * (h11 - h12 + h13)

hodge_number_h22(h11, h12, h13) == 44 + 4 * h11 + 4 * h13 - 2 * h12

\* append_weight_system, ipws.rs:370-374
append_weight_system(weight_lists, weight_system) ==
    [i \in 1..Len(weight_lists) |->
        IF i <= Len(weight_system)
        THEN Append(weight_lists[i], weight_system[i])
        ELSE weight_lists[i]]

-----------------------------------------------------------------------------
(* write_weights, ipws.rs:213-368                                          *)

\* slice comparison a.cmp(b): lexicographic, a proper prefix is less
RECURSIVE SliceCmp(_, _)
SliceCmp(a, b) ==
    IF Len(a) = 0 /\ Len(b) = 0 THEN "Equal"
    ELSE IF Len(a) = 0 THEN "Less"
    ELSE IF Len(b) = 0 THEN "Greater"
    ELSE IF a[1] < b[1] THEN "Less"
    ELSE IF a[1] > b[1] THEN "Greater"
    ELSE SliceCmp(Tail(a), Tail(b))

\* compare_weight_systems with the operands of the slice comparison swapped
compare_weight_systems_swapped(a, b) ==
    IF (Len(a) = 0) # (Len(b) = 0)
    THEN (IF Len(a) = 0 THEN "Greater" ELSE "Less")
    ELSE SliceCmp(b, a)

\* compare_weight_systems, ipws.rs:197-207: an empty (exhausted) front is
\* greater than every present weight system
compare_weight_systems(a, b) ==
    IF (Len(a) = 0) # (Len(b) = 0)
    THEN (IF Len(a) = 0 THEN "Greater" ELSE "Less")
    ELSE SliceCmp(a, b)

is_lt(ordering) == ordering = "Less"

\* collect_weights_into on a cleared vector, ipws.rs:209-211 (pos from 0)
collect_weights_into(weight_lists, pos) ==
    [i \in 1..Len(weight_lists) |-> weight_lists[i][pos + 1]]

\* the front of a tier after its cursor moved to pos
Refresh(weight_lists, pos, count) ==
    IF pos < count THEN collect_weights_into(weight_lists, pos) ELSE <<>>

RECURSIVE WriteVarints(_)
WriteVarints(values) ==
    IF Len(values) = 0 THEN <<>>
    ELSE write_varint(U32FromI32(values[1])) \o WriteVarints(Tail(values))

non_ip_count == Len(non_ip.weight_lists[1])
non_reflexive_count == Len(non_reflexive.weight_lists[1])
reflexive_count == Len(reflexive.weight_lists[1])

\* lines 223-263: cursors, header, first fronts
WriteWeightsBegin ==
    /\ pc = "write_weights"
    /\ non_ip_pos' = 0 /\ non_reflexive_pos' = 0 /\ reflexive_pos' = 0
    /\ ws_buf' = PutU32(U32FromNat(dimension))
                    \o PutU32(U32FromI32(numerator))
                    \o PutU32(U32FromI32(denominator))
                    \o PutU64(non_ip_count + non_reflexive_count
                                + reflexive_count)
    /\ pi_buf' = <<>>
    /\ non_ip_weights' = Refresh(non_ip.weight_lists, 0, non_ip_count)
    /\ non_reflexive_weights' =
          Refresh(non_reflexive.weight_lists, 0, non_reflexive_count)
    /\ reflexive_weights' =
          Refresh(reflexive.weight_lists, 0, reflexive_count)
    /\ pc' = "merge"
    /\ UNCHANGED <<varintVars, datasetVars, fileVars, readVars, columnarVars>>

\* the outer loop runs: some front is present (lines 265-267)
MergeRunning ==
    \/ non_ip_weights # <<>>
    \/ non_reflexive_weights # <<>>
    \/ reflexive_weights # <<>>

\* the conditions of the three inner loops (lines 269-271, 286-288, 319-321)
NonIpLoopCondition ==
    /\ non_ip_weights # <<>>
    /\ is_lt(compare_weight_systems(non_ip_weights, non_reflexive_weights))
    /\ is_lt(compare_weight_systems(non_ip_weights, reflexive_weights))

NonReflexiveLoopCondition ==
    /\ non_reflexive_weights # <<>>
    /\ is_lt(compare_weight_systems(non_reflexive_weights, non_ip_weights))
    /\ is_lt(compare_weight_systems(non_reflexive_weights, reflexive_weights))

ReflexiveLoopCondition ==
    /\ reflexive_weights # <<>>
    /\ is_lt(compare_weight_systems(reflexive_weights, non_ip_weights))
    /\ is_lt(compare_weight_systems(reflexive_weights, non_reflexive_weights))

\* the info record of the non-reflexive row with the facet count written
\* before the vertex count
NonReflexiveInfoRecordExchanged(pos) ==
    <<1>> \o WriteVarints(<<non_reflexive.facet_count_list[pos + 1],
                            non_reflexive.vertex_count_list[pos + 1],
                            non_reflexive.point_count_list[pos + 1]>>)

\* the info record of the non-reflexive row at pos (lines 294-306)
NonReflexiveInfoRecord(pos) ==
    <<1>> \o WriteVarints(<<non_reflexive.vertex_count_list[pos + 1],
                            non_reflexive.facet_count_list[pos + 1],
                            non_reflexive.point_count_list[pos + 1]>>)

\* the info record of the reflexive row, its Hodge numbers taken at a
\* cursor that never advances
ReflexiveInfoRecordFirstRow(pos) ==
    <<2>> \o WriteVarints(<<reflexive.vertex_count_list[pos + 1],
                            reflexive.facet_count_list[pos + 1],
                            reflexive.point_count_list[pos + 1],
                            reflexive.dual_point_count_list[pos + 1]>>)
          \o WriteVarints([i \in 1..(dimension - 3) |->
                              reflexive.hodge_number_lists[i][1]])

\* the info record of the reflexive row at pos (lines 327-349)
ReflexiveInfoRecord(pos) ==
    <<2>> \o WriteVarints(<<reflexive.vertex_count_list[pos + 1],
                            reflexive.facet_count_list[pos + 1],
                            reflexive.point_count_list[pos + 1],
                            reflexive.dual_point_count_list[pos + 1]>>)
          \o WriteVarints([i \in 1..(dimension - 3) |->
                              reflexive.hodge_number_lists[i][pos + 1]])

\* one pass of the first inner loop (lines 269-284)
MergeNonIp ==
    /\ pc = "merge"
    /\ NonIpLoopCondition
    /\ ws_buf' = ws_buf \o WriteVarints(non_ip_weights)
    /\ pi_buf' = Append(pi_buf, 0)
    /\ non_ip_pos' = non_ip_pos + 1
    /\ non_ip_weights' =
          Refresh(non_ip.weight_lists, non_ip_pos + 1, non_ip_count)
    /\ UNCHANGED <<non_reflexive_pos, reflexive_pos,
                   non_reflexive_weights, reflexive_weights>>
    /\ UNCHANGED <<varintVars, pc, datasetVars, fileVars, readVars,
                   columnarVars>>

\* one pass of the second inner loop (lines 286-317)
MergeNonReflexive ==
    /\ pc = "merge"
    /\ NonReflexiveLoopCondition
    /\ ws_buf' = ws_buf \o WriteVarints(non_reflexive_weights)
    /\ pi_buf' = pi_buf \o NonReflexiveInfoRecord(non_reflexive_pos)
    /\ non_reflexive_pos' = non_reflexive_pos + 1
    /\ non_reflexive_weights' =
          Refresh(non_reflexive.weight_lists, non_reflexive_pos + 1,
                  non_reflexive_count)
    /\ UNCHANGED <<non_ip_pos, reflexive_pos,
                   non_ip_weights, reflexive_weights>>
    /\ UNCHANGED <<varintVars, pc, datasetVars, fileVars, readVars,
                   columnarVars>>

\* one pass of the third inner loop (lines 319-356)
MergeReflexive ==
    /\ pc = "merge"
    /\ ReflexiveLoopCondition
    /\ ws_buf' = ws_buf \o WriteVarints(reflexive_weights)
    /\ pi_buf' = pi_buf \o ReflexiveInfoRecord(reflexive_pos)
    /\ reflexive_pos' = reflexive_pos + 1
    /\ reflexive_weights' =
          Refresh(reflexive.weight_lists, reflexive_pos + 1, reflexive_count)
    /\ UNCHANGED <<non_ip_pos, non_reflexive_pos,
                   non_ip_weights, non_reflexive_weights>>
    /\ UNCHANGED <<varintVars, pc, datasetVars, fileVars, readVars,
                   columnarVars>>

\* a pass of the outer loop in which no inner loop runs: nothing changes
\* and the outer condition still holds
MergeSpin ==
    /\ pc = "merge"
    /\ MergeRunning
    /\ ~NonIpLoopCondition
    /\ ~NonReflexiveLoopCondition
    /\ ~ReflexiveLoopCondition
    /\ UNCHANGED vars

\* the Err of a write the file system refuses
IoError(file) == [kind |-> "err", msg |-> "io", file |-> file, at |-> 0]

\* the outer loop ends; both buffers are written, the weights first (lines
\* 359-367); a refused fs::write returns its Err at once
WriteWeightsEnd ==
    /\ pc = "merge"
    /\ ~MergeRunning
    /\ IF "ws_out" \in io_fails
       THEN /\ outcome' = IoError("ws_out")
            /\ pc' = "failed"
            /\ UNCHANGED <<ws_file, pi_file>>
       ELSE IF "polytope_info_out" \in io_fails
       THEN /\ ws_file' = ws_buf
            /\ outcome' = IoError("polytope_info_out")
            /\ pc' = "failed"
            /\ UNCHANGED pi_file
       ELSE /\ ws_file' = ws_buf
            /\ pi_file' = pi_buf
            /\ pc' = "on_disk"
            /\ UNCHANGED outcome
    /\ UNCHANGED <<limit, read_dimension, index, weights, cursor, chunk,
                   read_non_ip, read_non_reflexive, read_reflexive>>
    /\ UNCHANGED <<varintVars, datasetVars, mergeVars, columnarVars>>

-----------------------------------------------------------------------------
(* read_weights, ipws.rs:168-195                                           *)

Min(a, b) == IF a <= b THEN a ELSE b

\* Buf::get_u32 at position at: four bytes, most significant first
GetU32(data, at) ==
    [hi |-> data[at] \div ContinuationBit,
     lo |-> (data[at] % ContinuationBit) * PowersOfTwo[25]
              + data[at + 1] * PowersOfTwo[17]
              + data[at + 2] * PowersOfTwo[9]
              + data[at + 3]]

\* u32 as usize; a value of 2^31 or more is kept as the largest value of the
\* model, which no stream of the model is long enough to serve
AsUsize(u) == IF u.hi = 0 THEN u.lo ELSE MaxI32

\* Buf::get_u64 as usize at position at, kept the same way
GetU64(data, at) ==
    IF \E i \in 0..3 : data[at + i] # 0 THEN MaxI32
    ELSE AsUsize(GetU32(data, at + 4))

\* the characters of a decimal number
Digits == <<"0", "1", "2", "3", "4", "5", "6", "7", "8", "9">>

\* the decimal text of a natural number below 2^31, one character each
RECURSIVE DecimalOf(_)
DecimalOf(n) ==
    IF n < 10 THEN <<Digits[n + 1]>>
    ELSE Append(DecimalOf(n \div 10), Digits[(n % 10) + 1])

\* format!("{}", u) for a u32: the decimal text of hi * 2^31 + lo
FormatU32(u) ==
    IF u.hi = 0 THEN DecimalOf(u.lo)
    ELSE Append(DecimalOf(214748364 + (u.lo \div 10)
                             + ((8 + (u.lo % 10)) \div 10)),
                Digits[((8 + (u.lo % 10)) % 10) + 1])

\* lines 177-181: the index as text
FormatIndex(num, den) ==
    IF den = U32FromNat(1) THEN FormatU32(num)
    ELSE FormatU32(num) \o <<"/">> \o FormatU32(den)

\* n times read_varint(..).try_into()? from position at (lines 189-192 and
\* 404-431): the values and the position after them, or the first failure
RECURSIVE ReadI32s(_, _, _, _)
ReadI32s(data, at, n, acc) ==
    IF n = 0
    THEN [kind |-> "ok", msg |-> "", at |-> 0, values |-> acc, next |-> at]
    ELSE
      LET r == read_varint(data, at)
      IN  IF r.kind = "panic"
          THEN [kind |-> "panic", msg |-> r.msg, at |-> at,
                values |-> <<>>, next |-> at]
          ELSE IF ~FitsI32(r.value)
          THEN [kind |-> "err", msg |-> "TryFromIntError", at |-> at,
                values |-> <<>>, next |-> at]
          ELSE ReadI32s(data, r.next, n - 1,
                        Append(acc, I32FromU32(r.value)))

\* the bytes of the weights header: three u32 and one u64
HeaderLen == 20

\* read_weights(ws_in, limit)
ReadWeights ==
    /\ pc = "on_disk"
    /\ IF Len(ws_file) < HeaderLen
       THEN /\ outcome' = [kind |-> "panic", msg |-> PanicBuffer.msg,
                           file |-> "weights", at |-> 0]
            /\ pc' = "failed"
            /\ UNCHANGED <<read_dimension, index, weights>>
       ELSE
         \E body \in {ReadI32s(ws_file, HeaderLen + 1,
                               Min(GetU64(ws_file, 13), limit)
                                 * AsUsize(GetU32(ws_file, 1)), <<>>)} :
            IF body.kind = "ok"
            THEN /\ read_dimension' = AsUsize(GetU32(ws_file, 1))
                 /\ index' = FormatIndex(GetU32(ws_file, 5),
                                         GetU32(ws_file, 9))
                 /\ weights' = body.values
                 /\ pc' = "read_polytope_info"
                 /\ UNCHANGED outcome
            ELSE /\ outcome' = [kind |-> body.kind, msg |-> body.msg,
                                file |-> "weights", at |-> body.at]
                 /\ pc' = "failed"
                 /\ UNCHANGED <<read_dimension, index, weights>>
    /\ UNCHANGED <<limit, cursor, chunk,
                   read_non_ip, read_non_reflexive, read_reflexive>>
    /\ UNCHANGED <<varintVars, datasetVars, mergeVars, fileVars, columnarVars>>

-----------------------------------------------------------------------------
(* read_polytope_info, ipws.rs:376-453                                     *)

\* line 387
derived6 == include_derived_quantities /\ read_dimension = 6

\* lines 389-394: the file is read and the three tiers are constructed;
\* below three dimensions `dimension - 3` has no usize value and chunks(0)
\* is refused, the process is aborted either way
ReadPolytopeInfoBegin ==
    /\ pc = "read_polytope_info"
    /\ IF read_dimension < 3
       THEN /\ outcome' = [kind |-> "panic", msg |-> "dimension",
                           file |-> "polytope_info", at |-> 0]
            /\ pc' = "failed"
            /\ UNCHANGED <<read_non_ip, read_non_reflexive, read_reflexive>>
       ELSE /\ read_non_ip' = NonIpPolytopeInfo_new(read_dimension)
            /\ read_non_reflexive' =
                  NonReflexivePolytopeInfo_new(read_dimension)
            /\ read_reflexive' =
                  ReflexivePolytopeInfo_new(read_dimension,
                                            include_derived_quantities)
            /\ pc' = "read_records"
            /\ UNCHANGED outcome
    /\ cursor' = 1
    /\ chunk' = 0
    /\ UNCHANGED <<limit, read_dimension, index, weights>>
    /\ UNCHANGED <<varintVars, datasetVars, mergeVars, fileVars, columnarVars>>

\* the weights of chunk number c (from 0) of weights.chunks(dimension)
WeightChunk(c) ==
    SubSeq(weights, c * read_dimension + 1,
           Min((c + 1) * read_dimension, Len(weights)))

\* the bytes of one record, lines 396-449: the tag, then for a tag other
\* than 0 three counts, then for tag 2 the dual point count and the Hodge
\* numbers; a tag other than 0, 1, 2 is refused after the three counts
ReadRecord(data, at, dim) ==
    IF at > Len(data)
    THEN [kind |-> "panic", msg |-> PanicBuffer.msg, at |-> 0,
          polytope_type |-> 0, fields |-> <<>>, next |-> at]
    ELSE IF data[at] = 0
    THEN [kind |-> "ok", msg |-> "", at |-> 0,
          polytope_type |-> 0, fields |-> <<>>, next |-> at + 1]
    ELSE
      LET counts == ReadI32s(data, at + 1, 3, <<>>)
      IN  IF counts.kind # "ok"
          THEN [kind |-> counts.kind, msg |-> counts.msg, at |-> counts.at,
                polytope_type |-> data[at], fields |-> <<>>, next |-> at]
          ELSE IF data[at] = 1
          THEN [kind |-> "ok", msg |-> "", at |-> 0,
                polytope_type |-> 1, fields |-> counts.values,
                next |-> counts.next]
          ELSE IF data[at] = 2
          THEN
            LET rest == ReadI32s(data, counts.next, 1 + (dim - 3), <<>>)
            IN  IF rest.kind # "ok"
                THEN [kind |-> rest.kind, msg |-> rest.msg, at |-> rest.at,
                      polytope_type |-> 2, fields |-> <<>>, next |-> at]
                ELSE [kind |-> "ok", msg |-> "", at |-> 0,
                      polytope_type |-> 2,
                      fields |-> counts.values \o rest.values,
                      next |-> rest.next]
          ELSE [kind |-> "err", msg |-> "invalid polytope type", at |-> 0,
                polytope_type |-> data[at], fields |-> <<>>, next |-> at]

\* lines 399-402
push_non_ip(tier, ws) ==
    [tier EXCEPT !.weight_lists = append_weight_system(@, ws)]

\* the non-reflexive pushes with vertex and facet count exchanged
push_non_reflexive_exchanged(tier, ws, fields) ==
    [tier EXCEPT !.weight_lists = append_weight_system(@, ws),
                 !.vertex_count_list = Append(@, fields[2]),
                 !.facet_count_list = Append(@, fields[1]),
                 !.point_count_list = Append(@, fields[3])]

\* lines 409-415
push_non_reflexive(tier, ws, fields) ==
    [tier EXCEPT !.weight_lists = append_weight_system(@, ws),
                 !.vertex_count_list = Append(@, fields[1]),
                 !.facet_count_list = Append(@, fields[2]),
                 !.point_count_list = Append(@, fields[3])]

\* the row of the derived quantities taken one row early
derived_row_neighbour(hodge_number_lists) ==
    IF Len(hodge_number_lists[4]) = 0 THEN 1
    ELSE Len(hodge_number_lists[4])

\* line 434: i = hodge_number_lists[3].len(), the row the Hodge numbers of
\* this record were just pushed to (rows from 1 here)
derived_row(hodge_number_lists) == Len(hodge_number_lists[4]) + 1

\* lines 418-444
push_reflexive(tier, ws, fields) ==
    LET pushed ==
          [i \in 1..Len(tier.hodge_number_lists) |->
              IF i <= tier.dimension - 3
              THEN Append(tier.hodge_number_lists[i], fields[4 + i])
              ELSE tier.hodge_number_lists[i]]
        counted ==
          [tier EXCEPT !.weight_lists = append_weight_system(@, ws),
                       !.vertex_count_list = Append(@, fields[1]),
                       !.facet_count_list = Append(@, fields[2]),
                       !.point_count_list = Append(@, fields[3]),
                       !.dual_point_count_list = Append(@, fields[4])]
    IN  IF derived6
        THEN
          LET i == derived_row(pushed)
              h11 == pushed[1][i]
              h12 == pushed[2][i]
              h13 == pushed[3][i]
          IN  [counted EXCEPT
                 !.hodge_number_lists =
                    [pushed EXCEPT
                        ![4] = Append(@, hodge_number_h22(h11, h12, h13))],
                 !.euler_characteristic_list =
                    Append(@, euler_characteristic(h11, h12, h13))]
        ELSE [counted EXCEPT !.hodge_number_lists = pushed]

\* one pass of the loop over weights.chunks(dimension), lines 395-450
ReadPolytopeInfoRecord ==
    /\ pc = "read_records"
    /\ chunk * read_dimension < Len(weights)
    /\ \E rec \in {ReadRecord(pi_file, cursor, read_dimension)} :
          IF rec.kind = "ok"
          THEN /\ cursor' = rec.next
               /\ chunk' = chunk + 1
               /\ read_non_ip' =
                     IF rec.polytope_type = 0
                     THEN push_non_ip(read_non_ip, WeightChunk(chunk))
                     ELSE read_non_ip
               /\ read_non_reflexive' =
                     IF rec.polytope_type = 1
                     THEN push_non_reflexive(read_non_reflexive,
                                             WeightChunk(chunk), rec.fields)
                     ELSE read_non_reflexive
               /\ read_reflexive' =
                     IF rec.polytope_type = 2
                     THEN push_reflexive(read_reflexive,
                                         WeightChunk(chunk), rec.fields)
                     ELSE read_reflexive
               /\ UNCHANGED <<pc, outcome>>
          ELSE /\ outcome' = [kind |-> rec.kind, msg |-> rec.msg,
                              file |-> "polytope_info", at |-> rec.at]
               /\ pc' = "failed"
               /\ read_non_ip' = NoTier
               /\ read_non_reflexive' = NoTier
               /\ read_reflexive' = NoTier
               /\ UNCHANGED <<cursor, chunk>>
    /\ UNCHANGED <<limit, read_dimension, index, weights>>
    /\ UNCHANGED <<varintVars, datasetVars, mergeVars, fileVars, columnarVars>>

\* every chunk was consumed: Ok((non_ip, non_reflexive, reflexive)), line 452
ReadPolytopeInfoEnd ==
    /\ pc = "read_records"
    /\ chunk * read_dimension >= Len(weights)
    /\ pc' = "done"
    /\ outcome' = [kind |-> "ok", msg |-> "", file |-> "", at |-> 0]
    /\ UNCHANGED <<limit, read_dimension, index, weights, cursor, chunk,
                   read_non_ip, read_non_reflexive, read_reflexive>>
    /\ UNCHANGED <<varintVars, datasetVars, mergeVars, fileVars, columnarVars>>

-----------------------------------------------------------------------------
(* write_parquet, ipws.rs:455-689                                          *)
(*                                                                         *)
(* A columnar file is [exists, metadata, schema, row_groups]: the          *)
(* key-value metadata in the order appended, the column names of the       *)
(* schema, and the row groups, each [num_rows, columns] with one column    *)
(* chunk [values, definition_levels, repetition_levels] per column         *)
(* written.  Text is a sequence of characters.  The three output paths     *)
(* are given.                                                              *)

\* format!("weight{}", i) for i in 0..dimension
WeightFieldNames ==
    <<"weight0", "weight1", "weight2", "weight3", "weight4", "weight5",
      "weight6", "weight7">>

\* format!("h1{}", i + 1) for i in 0..dimension - 3
HodgeFieldNames == <<"h11", "h12", "h13", "h14", "h15">>

\* bool::to_string
BoolText(b) ==
    IF b THEN <<"t", "r", "u", "e">> ELSE <<"f", "a", "l", "s", "e">>

\* append_metadata, lines 465-476
append_metadata(ip, is_reflexive, dim, index_text) ==
    <<[key |-> "ip", value |-> BoolText(ip)],
      [key |-> "reflexive", value |-> BoolText(is_reflexive)],
      [key |-> "dimension", value |-> DecimalOf(dim)],
      [key |-> "index", value |-> index_text]>>

\* lines 516-519
weight_fields(dim) == [i \in 1..dim |-> WeightFieldNames[i]]

\* hodge_number_fields without the h22 field
hodge_number_fields_plain(dim, derived) ==
    [i \in 1..(dim - 3) |-> HodgeFieldNames[i]]

\* lines 521-528
hodge_number_fields(dim, derived) ==
    [i \in 1..(dim - 3) |-> HodgeFieldNames[i]]
        \o (IF derived /\ dim = 6 THEN <<"h22">> ELSE <<>>)

\* lines 569-572
non_reflexive_fields(dim) ==
    weight_fields(dim) \o <<"vertex_count", "facet_count", "point_count">>

\* lines 619-627
reflexive_fields(dim, derived) ==
    weight_fields(dim)
        \o <<"vertex_count", "facet_count", "point_count", "dual_point_count">>
        \o hodge_number_fields(dim, derived)
        \o (IF derived /\ dim = 6 THEN <<"euler_characteristic">> ELSE <<>>)

\* &list[start..end], positions from 0
Slice(list, start, end) == SubSeq(list, start + 1, end)

\* write_parquet_int_column, lines 478-492: write_batch(data, None, None)
IntColumn(data) ==
    [values |-> data, definition_levels |-> <<>>, repetition_levels |-> <<>>]

\* (row_count + ROW_GROUP_SIZE - 1) / ROW_GROUP_SIZE
row_group_count(row_count, size) == (row_count + size - 1) \div size

\* the row groups of a file: group g (from 1) holds the rows from
\* (g - 1) * size to min(that + size, row_count) of every list, in the order
\* of the lists (lines 551-563, 588-613, 643-683)
RowGroups(lists, row_count, size) ==
    [g \in 1..row_group_count(row_count, size) |->
        [num_rows |-> Min((g - 1) * size + size, row_count) - (g - 1) * size,
         columns |->
            [c \in 1..Len(lists) |->
                IntColumn(Slice(lists[c], (g - 1) * size,
                                Min((g - 1) * size + size, row_count)))]]]

\* the lists of a tier in the order their columns are written
NonIpColumnLists(tier) == tier.weight_lists

NonReflexiveColumnLists(tier) ==
    tier.weight_lists
        \o <<tier.vertex_count_list, tier.facet_count_list,
             tier.point_count_list>>

ReflexiveColumnLists(tier, dim, derived) ==
    tier.weight_lists
        \o <<tier.vertex_count_list, tier.facet_count_list,
             tier.point_count_list, tier.dual_point_count_list>>
        \o tier.hodge_number_lists
        \o (IF derived /\ dim = 6
            THEN <<tier.euler_characteristic_list>> ELSE <<>>)

\* lines 536-566: the non-IP file
WriteParquetNonIp ==
    /\ pc = "done"
    /\ IF "parquet_non_ip_out" \in io_fails
       THEN /\ outcome' = IoError("parquet_non_ip_out")
            /\ pc' = "failed"
            /\ UNCHANGED parquet_non_ip_out
       ELSE /\ parquet_non_ip_out' =
                  [exists |-> TRUE,
                   metadata |-> append_metadata(FALSE, FALSE,
                                                read_dimension, index),
                   schema |-> weight_fields(read_dimension),
                   row_groups |->
                      RowGroups(NonIpColumnLists(read_non_ip),
                                Len(read_non_ip.weight_lists[1]),
                                row_group_size)]
            /\ pc' = "write_non_reflexive"
            /\ UNCHANGED outcome
    /\ UNCHANGED <<limit, read_dimension, index, weights, cursor, chunk,
                   read_non_ip, read_non_reflexive, read_reflexive>>
    /\ UNCHANGED <<row_group_size, parquet_non_reflexive_out,
                   parquet_reflexive_out, parquet_in, shard, io_fails,
                   palpVars>>
    /\ UNCHANGED <<varintVars, datasetVars, mergeVars, fileVars>>

\* lines 568-616: the non-reflexive file
WriteParquetNonReflexive ==
    /\ pc = "write_non_reflexive"
    /\ IF "parquet_non_reflexive_out" \in io_fails
       THEN /\ outcome' = IoError("parquet_non_reflexive_out")
            /\ pc' = "failed"
            /\ UNCHANGED parquet_non_reflexive_out
       ELSE /\ parquet_non_reflexive_out' =
                  [exists |-> TRUE,
                   metadata |-> append_metadata(TRUE, FALSE,
                                                read_dimension, index),
                   schema |-> non_reflexive_fields(read_dimension),
                   row_groups |->
                      RowGroups(NonReflexiveColumnLists(read_non_reflexive),
                                Len(read_non_reflexive.weight_lists[1]),
                                row_group_size)]
            /\ pc' = "write_reflexive"
            /\ UNCHANGED outcome
    /\ UNCHANGED <<limit, read_dimension, index, weights, cursor, chunk,
                   read_non_ip, read_non_reflexive, read_reflexive>>
    /\ UNCHANGED <<row_group_size, parquet_non_ip_out,
                   parquet_reflexive_out, parquet_in, shard, io_fails,
                   palpVars>>
    /\ UNCHANGED <<varintVars, datasetVars, mergeVars, fileVars>>

\* lines 618-686: the reflexive file
WriteParquetReflexive ==
    /\ pc = "write_reflexive"
    /\ IF "parquet_reflexive_out" \in io_fails
       THEN /\ outcome' = IoError("parquet_reflexive_out")
            /\ pc' = "failed"
            /\ UNCHANGED parquet_reflexive_out
       ELSE /\ parquet_reflexive_out' =
                  [exists |-> TRUE,
                   metadata |-> append_metadata(TRUE, TRUE,
                                                read_dimension, index),
                   schema |-> reflexive_fields(read_dimension,
                                               include_derived_quantities),
                   row_groups |->
                      RowGroups(ReflexiveColumnLists(
                                    read_reflexive, read_dimension,
                                    include_derived_quantities),
                                Len(read_reflexive.weight_lists[1]),
                                row_group_size)]
            /\ pc' = "parquet_written"
            /\ outcome' = [kind |-> "ok", msg |-> "", file |-> "", at |-> 0]
    /\ UNCHANGED <<limit, read_dimension, index, weights, cursor, chunk,
                   read_non_ip, read_non_reflexive, read_reflexive>>
    /\ UNCHANGED <<row_group_size, parquet_non_ip_out,
                   parquet_non_reflexive_out, parquet_in, shard, io_fails,
                   palpVars>>
    /\ UNCHANGED <<varintVars, datasetVars, mergeVars, fileVars>>

-----------------------------------------------------------------------------
(* parse_parquet_metadata and read_parquet, ipws.rs:691-818                *)

\* #[derive(Default)] of the three tier structures, lines 51-76
NonIpPolytopeInfo_default == [dimension |-> 0, weight_lists |-> <<>>]

NonReflexivePolytopeInfo_default ==
    [dimension |-> 0, weight_lists |-> <<>>,
     vertex_count_list |-> <<>>, facet_count_list |-> <<>>,
     point_count_list |-> <<>>]

ReflexivePolytopeInfo_default ==
    [dimension |-> 0, weight_lists |-> <<>>,
     vertex_count_list |-> <<>>, facet_count_list |-> <<>>,
     point_count_list |-> <<>>, dual_point_count_list |-> <<>>,
     hodge_number_lists |-> <<>>, euler_characteristic_list |-> <<>>]

\* NonIpPolytopeInfo::resize and NonReflexivePolytopeInfo::resize
resize(tier, dim) ==
    [tier EXCEPT !.dimension = dim,
                 !.weight_lists = ResizeLists(@, dim)]

\* ReflexivePolytopeInfo::resize
resize_reflexive(tier, dim, derived) ==
    [tier EXCEPT !.dimension = dim,
                 !.weight_lists = ResizeLists(@, dim),
                 !.hodge_number_lists =
                    ResizeLists(@, hodge_number_lists_count(dim, derived))]

IsDigit(c) == \E d \in 1..10 : Digits[d] = c

DigitValue(c) == (CHOOSE d \in 1..10 : Digits[d] = c) - 1

AllDigits(text) == Len(text) > 0 /\ \A i \in 1..Len(text) : IsDigit(text[i])

\* the digits of text read as a number with the sign given, most significant
\* first; "overflow" when the number leaves the i32 range
RECURSIVE AccumulateI32(_, _, _)
AccumulateI32(text, sign, acc) ==
    IF Len(text) = 0 THEN [ok |-> TRUE, value |-> acc]
    ELSE
      LET d == DigitValue(text[1])
          room == IF sign = 1 THEN (MaxI32 - d) \div 10
                  ELSE (MaxI32 + 1 - (IF d = 0 THEN 1 ELSE d)) \div 10
      IN  IF sign * acc > room THEN [ok |-> FALSE, value |-> 0]
          ELSE AccumulateI32(Tail(text), sign, acc * 10 + sign * d)

\* i32::from_str: an optional sign, then one or more digits, in range
ParseI32(text) ==
    IF Len(text) > 0 /\ text[1] \in {"+", "-"}
    THEN IF AllDigits(Tail(text))
         THEN AccumulateI32(Tail(text), IF text[1] = "-" THEN -1 ELSE 1, 0)
         ELSE [ok |-> FALSE, value |-> 0]
    ELSE IF AllDigits(text) THEN AccumulateI32(text, 1, 0)
    ELSE [ok |-> FALSE, value |-> 0]

\* usize::from_str: an optional "+", then one or more digits; the texts of
\* the model stay below 2^31
ParseUsize(text) ==
    IF Len(text) > 0 /\ text[1] = "-" THEN [ok |-> FALSE, value |-> 0]
    ELSE ParseI32(text)

\* bool::from_str
ParseBool(text) ==
    IF text = BoolText(TRUE) THEN [ok |-> TRUE, value |-> TRUE]
    ELSE IF text = BoolText(FALSE) THEN [ok |-> TRUE, value |-> FALSE]
    ELSE [ok |-> FALSE, value |-> FALSE]

\* the value the loop of lines 697-707 leaves for a key: that of the last
\* entry with the key
LastValue(metadata, key) ==
    LET at == {i \in 1..Len(metadata) : metadata[i].key = key}
    IN  IF at = {} THEN [some |-> FALSE, value |-> <<>>]
        ELSE [some |-> TRUE,
              value |-> metadata[CHOOSE i \in at : \A j \in at : j <= i].value]

\* the position of the "/" of a text of the shape ^([0-9]+)/([0-9]+)$,
\* 0 for any other text
RationalSlash(text) ==
    LET at == {i \in 1..Len(text) :
                 /\ text[i] = "/"
                 /\ AllDigits(SubSeq(text, 1, i - 1))
                 /\ AllDigits(SubSeq(text, i + 1, Len(text)))}
    IN  IF at = {} THEN 0 ELSE CHOOSE i \in at : TRUE

MetadataError(msg) ==
    [kind |-> "err", msg |-> msg, ip |-> FALSE, is_reflexive |-> FALSE,
     dimension |-> 0, numerator |-> 0, denominator |-> 0]

\* lines 715-725: the index text as (numerator, denominator), both i32; a
\* text of the rational shape fails with the context "parse index", any
\* other text with the ParseIntError itself
parse_index(text) ==
    LET slash == RationalSlash(text)
        num == ParseI32(IF slash > 0 THEN SubSeq(text, 1, slash - 1)
                        ELSE text)
        den == IF slash > 0
               THEN ParseI32(SubSeq(text, slash + 1, Len(text)))
               ELSE [ok |-> TRUE, value |-> 1]
    IN  IF num.ok /\ den.ok
        THEN [ok |-> TRUE, msg |-> "", numerator |-> num.value,
              denominator |-> den.value]
        ELSE [ok |-> FALSE,
              msg |-> IF slash > 0 THEN "parse index" ELSE "ParseIntError",
              numerator |-> 0, denominator |-> 0]

\* parse_parquet_metadata taking a default for a key that is absent or has
\* no parsable value: a non-IP file of dimension 4 with index 0
parse_parquet_metadata_defaulting(metadata) ==
    LET ip == LastValue(metadata, "ip")
        is_reflexive == LastValue(metadata, "reflexive")
        dim == LastValue(metadata, "dimension")
        index_text == LastValue(metadata, "index")
        parsed == IF index_text.some THEN parse_index(index_text.value)
                  ELSE [ok |-> FALSE]
    IN  [kind |-> "ok", msg |-> "",
         ip |-> ip.some /\ ParseBool(ip.value).ok
                    /\ ParseBool(ip.value).value,
         is_reflexive |-> /\ is_reflexive.some
                          /\ ParseBool(is_reflexive.value).ok
                          /\ ParseBool(is_reflexive.value).value,
         dimension |-> IF dim.some /\ ParseUsize(dim.value).ok
                       THEN ParseUsize(dim.value).value ELSE 4,
         numerator |-> IF parsed.ok THEN parsed.numerator ELSE 0,
         denominator |-> IF parsed.ok THEN parsed.denominator ELSE 1]

\* parse_parquet_metadata, lines 691-727
parse_parquet_metadata(metadata) ==
    LET ip == LastValue(metadata, "ip")
        is_reflexive == LastValue(metadata, "reflexive")
        dim == LastValue(metadata, "dimension")
        index_text == LastValue(metadata, "index")
    IN  IF ~(/\ ip.some /\ ParseBool(ip.value).ok
             /\ is_reflexive.some /\ ParseBool(is_reflexive.value).ok
             /\ dim.some /\ ParseUsize(dim.value).ok
             /\ index_text.some)
        THEN MetadataError("missing Parquet file metadata")
        ELSE IF ~parse_index(index_text.value).ok
        THEN MetadataError(parse_index(index_text.value).msg)
        ELSE [kind |-> "ok", msg |-> "",
              ip |-> ParseBool(ip.value).value,
              is_reflexive |-> ParseBool(is_reflexive.value).value,
              dimension |-> ParseUsize(dim.value).value,
              numerator |-> parse_index(index_text.value).numerator,
              denominator |-> parse_index(index_text.value).denominator]

\* lines 752-757: the columns read_parquet expects, 0 for the flags it
\* refuses
num_columns(ip, is_reflexive, dim) ==
    IF ~ip /\ ~is_reflexive THEN dim
    ELSE IF ip /\ ~is_reflexive THEN dim + 3
    ELSE IF ip /\ is_reflexive THEN 2 * dim + 1
    ELSE 0

\* metadata.file_metadata().num_rows(): the rows of all row groups
RECURSIVE FileNumRows(_)
FileNumRows(row_groups) ==
    IF Len(row_groups) = 0 THEN 0
    ELSE row_groups[1].num_rows + FileNumRows(Tail(row_groups))

\* the column check of the row-group loop refusing any other column count
columns_missing_exact(expected, present) == expected # present

\* lines 772-774: if num_columns > row_group_metadata.num_columns()
columns_missing(expected, present) == expected > present

\* lines 768-798: the row groups read in order into `values`, from row pos
\* on, until row_count rows are read
RECURSIVE ReadRowGroups(_, _, _, _, _, _)
ReadRowGroups(row_groups, g, columns, row_count, pos, values) ==
    IF g > Len(row_groups)
    THEN [kind |-> "ok", msg |-> "", values |-> values]
    ELSE IF columns_missing(columns, Len(row_groups[g].columns))
    THEN [kind |-> "err", msg |-> "columns missing", values |-> <<>>]
    ELSE
      LET to_read == Min(row_groups[g].num_rows, row_count - pos)
      IN  IF \E c \in 1..columns :
                Len(row_groups[g].columns[c].values) < to_read
          THEN [kind |-> "panic", msg |-> "assert_eq!(count, to_read)",
                values |-> <<>>]
          ELSE
            LET read ==
                  [c \in 1..columns |->
                      values[c] \o SubSeq(row_groups[g].columns[c].values,
                                          1, to_read)]
            IN  IF pos + to_read >= row_count
                THEN [kind |-> "ok", msg |-> "", values |-> read]
                ELSE ReadRowGroups(row_groups, g + 1, columns, row_count,
                                   pos + to_read, read)

\* the result of read_parquet: how it ended, the three tier structures as
\* it left them, and what it returns
ReadParquetResult(kind, msg, a, b, c, meta) ==
    [kind |-> kind, msg |-> msg,
     non_ip |-> a, non_reflexive |-> b, reflexive |-> c,
     dimension |-> meta.dimension, numerator |-> meta.numerator,
     denominator |-> meta.denominator]

\* lines 800-815: the columns read become the lists of the tier of the file
assign_non_ip(tier, values) == [tier EXCEPT !.weight_lists = values]

assign_non_reflexive(tier, values, dim) ==
    [tier EXCEPT !.weight_lists = SubSeq(values, 1, dim),
                 !.vertex_count_list = values[dim + 1],
                 !.facet_count_list = values[dim + 2],
                 !.point_count_list = values[dim + 3]]

assign_reflexive(tier, values, dim) ==
    [tier EXCEPT !.weight_lists = SubSeq(values, 1, dim),
                 !.vertex_count_list = values[dim + 1],
                 !.facet_count_list = values[dim + 2],
                 !.point_count_list = values[dim + 3],
                 !.dual_point_count_list = values[dim + 4],
                 !.hodge_number_lists = SubSeq(values, dim + 5, 2 * dim + 1),
                 !.euler_characteristic_list = <<>>]

\* read_parquet(path, &mut non_ip, &mut non_reflexive, &mut reflexive,
\* limit), lines 729-818.  A file without key-value metadata is one for
\* which key_value_metadata() is None.
read_parquet(file, a, b, c, row_limit) ==
    IF ~file.exists
    THEN ReadParquetResult("err", "io", a, b, c, MetadataError(""))
    ELSE IF Len(file.metadata) = 0
    THEN ReadParquetResult("err", "no Parquet file metadata", a, b, c,
                           MetadataError(""))
    ELSE
      LET meta == parse_parquet_metadata(file.metadata)
      IN  IF meta.kind # "ok"
          THEN ReadParquetResult("err", meta.msg, a, b, c, meta)
          ELSE IF ~meta.ip /\ meta.is_reflexive
          THEN ReadParquetResult("err", "invalid metadata", a, b, c, meta)
          ELSE IF meta.dimension < 3
          THEN ReadParquetResult("panic", "dimension",
                                 resize(a, meta.dimension),
                                 resize(b, meta.dimension), c, meta)
          ELSE
            LET columns ==
                  num_columns(meta.ip, meta.is_reflexive, meta.dimension)
                a2 == resize(a, meta.dimension)
                b2 == resize(b, meta.dimension)
                c2 == resize_reflexive(c, meta.dimension, FALSE)
                row_count == Min(FileNumRows(file.row_groups), row_limit)
                read == ReadRowGroups(file.row_groups, 1, columns, row_count,
                                      0, [k \in 1..columns |-> <<>>])
            IN  IF read.kind # "ok"
                THEN ReadParquetResult(read.kind, read.msg, a2, b2, c2, meta)
                ELSE IF ~meta.ip
                THEN ReadParquetResult(
                        "ok", "", assign_non_ip(a2, read.values), b2, c2,
                        meta)
                ELSE IF ~meta.is_reflexive
                THEN ReadParquetResult(
                        "ok", "", a2,
                        assign_non_reflexive(b2, read.values, meta.dimension),
                        c2, meta)
                ELSE ReadParquetResult(
                        "ok", "", a2, b2,
                        assign_reflexive(c2, read.values, meta.dimension),
                        meta)

\* lines 852-863 of main: one pass of the loop over args.parquet_in
ReadParquet ==
    /\ pc = "read_parquet"
    /\ shard < Len(parquet_in)
    /\ \E r \in {read_parquet(parquet_in[shard + 1], non_ip, non_reflexive,
                              reflexive, limit)} :
          /\ non_ip' = r.non_ip
          /\ non_reflexive' = r.non_reflexive
          /\ reflexive' = r.reflexive
          /\ IF r.kind = "ok"
             THEN /\ dimension' = r.dimension
                  /\ numerator' = r.numerator
                  /\ denominator' = r.denominator
                  /\ shard' = shard + 1
                  /\ UNCHANGED <<pc, outcome>>
             ELSE /\ outcome' = [kind |-> r.kind, msg |-> r.msg,
                                 file |-> "parquet_in", at |-> shard + 1]
                  /\ pc' = "failed"
                  /\ UNCHANGED <<dimension, numerator, denominator, shard>>
    /\ UNCHANGED <<include_derived_quantities, limit, read_dimension, index,
                   weights, cursor, chunk, read_non_ip, read_non_reflexive,
                   read_reflexive>>
    /\ UNCHANGED <<row_group_size, parquet_non_ip_out,
                   parquet_non_reflexive_out, parquet_reflexive_out,
                   parquet_in, io_fails, palpVars>>
    /\ UNCHANGED <<varintVars, mergeVars, fileVars>>

\* every file was read: the tiers are handed to write_weights, lines 865-875
ReadParquetEnd ==
    /\ pc = "read_parquet"
    /\ shard = Len(parquet_in)
    /\ pc' = "write_weights"
    /\ UNCHANGED <<varintVars, datasetVars, mergeVars, fileVars, readVars,
                   columnarVars>>

-----------------------------------------------------------------------------
(* Datasets handed to write_weights                                        *)

\* the most rows a dataset holds, over its three tiers
MaxRows == 4

\* the first two weights of the weight systems the tiers are made of
Lead == <<<<0, 9>>, <<1, 2>>, <<1, 3>>, <<2, 1>>>>

\* weight system k in dimension dim; the later weights take two bytes
WeightSystemOf(dim, k) ==
    [i \in 1..dim |-> IF i <= 2 THEN Lead[k][i] ELSE 200 + i]

\* (dimension, derived quantities, index numerator, index denominator)
Configs ==
    {<<4, FALSE, 7, 1>>, <<5, TRUE, 3, 4>>,
     <<6, FALSE, 3, 4>>, <<6, TRUE, 7, 1>>}

IsAscending(rows) ==
    \A i \in 1..(Len(rows) - 1) : rows[i] <= rows[i + 1]

\* a tier's rows as ascending sequences of weight-system numbers
TierRows == {r \in SeqsUpTo(1..Len(Lead), MaxRows) : IsAscending(r)}

WeightLists(dim, rows) ==
    [i \in 1..dim |-> [r \in 1..Len(rows) |-> WeightSystemOf(dim, rows[r])[i]]]

\* the Hodge numbers (h11, h12, h13) of reflexive row r
HodgeOfRow(r) == <<r, 86 + r, 300 * r>>

NonIpTier(dim, rows) ==
    [dimension |-> dim, weight_lists |-> WeightLists(dim, rows)]

NonReflexiveTier(dim, rows) ==
    [dimension |-> dim, weight_lists |-> WeightLists(dim, rows),
     vertex_count_list |-> [r \in 1..Len(rows) |-> 10 + r],
     facet_count_list |-> [r \in 1..Len(rows) |-> 200 + r],
     point_count_list |-> [r \in 1..Len(rows) |-> 20000 + r]]

ReflexiveTier(dim, derived, rows) ==
    [dimension |-> dim, weight_lists |-> WeightLists(dim, rows),
     vertex_count_list |-> [r \in 1..Len(rows) |-> 30 + r],
     facet_count_list |-> [r \in 1..Len(rows) |-> 400 + r],
     point_count_list |-> [r \in 1..Len(rows) |-> 40000 + r],
     dual_point_count_list |-> [r \in 1..Len(rows) |-> 3000000 + r],
     hodge_number_lists |->
        [i \in 1..hodge_number_lists_count(dim, derived) |->
            [r \in 1..Len(rows) |->
                IF i <= dim - 3 THEN HodgeOfRow(r)[i]
                ELSE 44 + 4 * HodgeOfRow(r)[1] + 4 * HodgeOfRow(r)[3]
                        - 2 * HodgeOfRow(r)[2]]],
     euler_characteristic_list |->
        IF dim = 6 /\ derived
        THEN [r \in 1..Len(rows) |->
                48 + 6 * (HodgeOfRow(r)[1] - HodgeOfRow(r)[2]
                            + HodgeOfRow(r)[3])]
        ELSE <<>>]

\* a dataset in memory, its tiers sorted ascending, about to be merged
DatasetInMemory ==
    /\ pc = "write_weights"
    /\ \E c \in Configs, a \in TierRows, b \in TierRows, r \in TierRows :
          /\ Len(a) + Len(b) + Len(r) <= MaxRows
          /\ dimension = c[1]
          /\ include_derived_quantities = c[2]
          /\ numerator = c[3]
          /\ denominator = c[4]
          /\ non_ip = NonIpTier(c[1], a)
          /\ non_reflexive = NonReflexiveTier(c[1], b)
          /\ reflexive = ReflexiveTier(c[1], c[2], r)
    /\ non_ip_pos = 0 /\ non_reflexive_pos = 0 /\ reflexive_pos = 0
    /\ non_ip_weights = <<>> /\ non_reflexive_weights = <<>>
    /\ reflexive_weights = <<>>
    /\ ws_buf = <<>> /\ pi_buf = <<>>
    /\ ws_file = <<>> /\ pi_file = <<>>
    /\ limit = NoLimit
    /\ ReadIdle

\* a dataset in memory; the file system refuses nothing
InitDataset == DatasetInMemory /\ ColumnarIdle

\* the codec harness while a conversion runs
VarintIdle ==
    /\ vpc = "idle" /\ vx = NoU32 /\ vbuf = <<>> /\ vtail = <<>> /\ vout = <<>>

InitMerge == VarintIdle /\ InitDataset

NextMerge ==
    \/ WriteWeightsBegin
    \/ MergeNonIp
    \/ MergeNonReflexive
    \/ MergeReflexive
    \/ MergeSpin
    \/ WriteWeightsEnd

SpecMerge == InitMerge /\ [][NextMerge]_vars

\* a conversion to the binary pair followed by a conversion back from it
NextPair ==
    \/ WriteWeightsBegin
    \/ MergeNonIp
    \/ MergeNonReflexive
    \/ MergeReflexive
    \/ MergeSpin
    \/ WriteWeightsEnd
    \/ ReadWeights
    \/ ReadPolytopeInfoBegin
    \/ ReadPolytopeInfoRecord
    \/ ReadPolytopeInfoEnd

SpecPair == InitMerge /\ [][NextPair]_vars

-----------------------------------------------------------------------------
(* Binary pairs handed to the readers                                      *)

\* the most records an info stream of the model is made of
MaxRecords == 3

\* a varint of five bytes whose value is 2^35 - 1: it exceeds 32 bits
OverflowVarint == <<255, 255, 255, 255, 127>>

\* the varint of 2^31: a u32 that is no i32
BigVarint == <<128, 128, 128, 128, 8>>

\* the Hodge numbers (h11, h12, h13) of the two reflexive records
HodgeOfRecord == <<<<2, 86, 300>>, <<1, 0, 129>>>>

\* a well-formed reflexive record in dimension dim
ReflexiveRecordBytes(dim, k) ==
    <<2>> \o WriteVarints(<<30 + k, 400 + k, 40000 + k, 3000000 + k>>)
          \o WriteVarints(SubSeq(HodgeOfRecord[k], 1, dim - 3))

\* the pieces info streams are made of: well-formed records of the three
\* tiers, a tag that is none of 0, 1, 2 (the bytes of the next piece follow
\* it, or none), a record with a varint that exceeds 32 bits, and a record
\* with a varint that is a u32 but no i32
RecordPalette(dim) ==
    { <<0>>,
      <<1>> \o WriteVarints(<<11, 201, 20001>>),
      ReflexiveRecordBytes(dim, 1),
      ReflexiveRecordBytes(dim, 2),
      <<3>>,
      <<1, 5>> \o OverflowVarint \o <<7>>,
      <<2, 5, 6>> \o BigVarint }

RECURSIVE Flatten(_)
Flatten(pieces) ==
    IF Len(pieces) = 0 THEN <<>> ELSE pieces[1] \o Flatten(Tail(pieces))

\* the weights file of count weight systems, well formed
WeightsFile(dim, num, den, count) ==
    PutU32(U32FromNat(dim)) \o PutU32(U32FromI32(num))
        \o PutU32(U32FromI32(den)) \o PutU64(count)
        \o Flatten([k \in 1..count |->
                       WriteVarints(WeightSystemOf(dim,
                                                   ((k - 1) % Len(Lead)) + 1))])

\* the weights file of one weight system with a varint that cannot be read
\* as an i32 in it: it overflows, it is a u32 above i32, or it is cut off
DefectVarints == {OverflowVarint, BigVarint, <<128>>}

DefectWeightsFile(dim, num, den, defect) ==
    SubSeq(WeightsFile(dim, num, den, 1), 1, HeaderLen + 2) \o defect

\* a binary pair on disk: an info stream of up to MaxRecords pieces with a
\* weights file of as many weight systems, one fewer or one more, or one
\* record with a defective weights file
InitRead ==
    /\ VarintIdle
    /\ pc = "on_disk"
    /\ dimension = 0 /\ numerator = 0 /\ denominator = 0
    /\ non_ip = <<>> /\ non_reflexive = <<>> /\ reflexive = <<>>
    /\ non_ip_pos = 0 /\ non_reflexive_pos = 0 /\ reflexive_pos = 0
    /\ non_ip_weights = <<>> /\ non_reflexive_weights = <<>>
    /\ reflexive_weights = <<>>
    /\ ws_buf = <<>> /\ pi_buf = <<>>
    /\ \E c \in Configs :
          /\ include_derived_quantities = c[2]
          /\ \/ \E pieces \in SeqsUpTo(RecordPalette(c[1]), MaxRecords),
                   count \in 0..(MaxRecords + 1) :
                    /\ count \in (Len(pieces) - 1)..(Len(pieces) + 1)
                    /\ ws_file = WeightsFile(c[1], c[3], c[4], count)
                    /\ pi_file = Flatten(pieces)
             \/ \E defect \in DefectVarints :
                    /\ ws_file = DefectWeightsFile(c[1], c[3], c[4], defect)
                    /\ pi_file = <<0>>
    /\ limit = NoLimit
    /\ ReadIdle
    /\ ColumnarIdle

NextRead ==
    \/ ReadWeights
    \/ ReadPolytopeInfoBegin
    \/ ReadPolytopeInfoRecord
    \/ ReadPolytopeInfoEnd

SpecRead == InitRead /\ [][NextRead]_vars

-----------------------------------------------------------------------------
(* Columnar files handed to read_parquet (main, lines 850-875)             *)

\* the most files args.parquet_in names
MaxShards == 2

\* args.limit: a row limit, or none
Limits == {1, 2, NoLimit}

\* a columnar file of the given flags holding the given column lists
ColumnarFile(ip, is_reflexive, dim, index_text, fields, lists, size) ==
    [exists |-> TRUE,
     metadata |-> append_metadata(ip, is_reflexive, dim, index_text),
     schema |-> fields,
     row_groups |-> RowGroups(lists, Len(lists[1]), size)]

\* well-formed files of the three tiers, as write_parquet writes them
NonIpShard(dim, num, rows, size) ==
    ColumnarFile(FALSE, FALSE, dim, DecimalOf(num), weight_fields(dim),
                 NonIpColumnLists(NonIpTier(dim, rows)), size)

NonReflexiveShard(dim, num, rows, size) ==
    ColumnarFile(TRUE, FALSE, dim, DecimalOf(num), non_reflexive_fields(dim),
                 NonReflexiveColumnLists(NonReflexiveTier(dim, rows)), size)

ReflexiveShard(dim, derived, num, rows, size) ==
    ColumnarFile(TRUE, TRUE, dim, DecimalOf(num),
                 reflexive_fields(dim, derived),
                 ReflexiveColumnLists(ReflexiveTier(dim, derived, rows),
                                      dim, derived), size)

WellFormedShards ==
    {NonIpShard(4, 7, <<1, 2>>, 1), NonIpShard(4, 7, <<3>>, 1),
     NonIpShard(5, 8, <<1>>, 2),
     NonReflexiveShard(4, 7, <<2>>, 1), NonReflexiveShard(4, 9, <<3, 4>>, 2),
     ReflexiveShard(4, FALSE, 7, <<4>>, 2),
     ReflexiveShard(4, FALSE, 7, <<1, 2, 3>>, 2),
     ReflexiveShard(6, TRUE, 7, <<1, 2>>, 1)}

\* a file whose metadata lacks one key
WithoutKey(file, key) ==
    [file EXCEPT !.metadata = SelectSeq(@, LAMBDA kv : kv.key # key)]

\* a file whose metadata holds another value under one key
WithValue(file, key, text) ==
    [file EXCEPT !.metadata =
        [i \in 1..Len(file.metadata) |->
            IF file.metadata[i].key = key
            THEN [key |-> key, value |-> text]
            ELSE file.metadata[i]]]

\* a file with one column less, or one more, in every row group
WithoutLastColumn(file) ==
    [file EXCEPT !.schema = SubSeq(@, 1, Len(@) - 1),
                 !.row_groups =
                    [g \in 1..Len(file.row_groups) |->
                        [file.row_groups[g] EXCEPT
                            !.columns = SubSeq(@, 1, Len(@) - 1)]]]

WithFurtherColumn(file) ==
    [file EXCEPT !.schema = Append(@, "further"),
                 !.row_groups =
                    [g \in 1..Len(file.row_groups) |->
                        [file.row_groups[g] EXCEPT
                            !.columns = Append(@, @[Len(@)])]]]

MetadataKeys == {"ip", "reflexive", "dimension", "index"}

\* files read_parquet has to refuse for their metadata
MetadataDefectShards ==
    {WithoutKey(NonReflexiveShard(4, 7, <<2>>, 1), key) : key \in MetadataKeys}
      \cup {[NonReflexiveShard(4, 7, <<2>>, 1) EXCEPT !.metadata = <<>>],
            WithValue(NonReflexiveShard(4, 7, <<2>>, 1), "ip", <<"1">>),
            WithValue(NonIpShard(4, 7, <<3>>, 1), "reflexive",
                      <<"y", "e", "s">>),
            WithValue(NonReflexiveShard(4, 7, <<2>>, 1), "dimension",
                      <<"4", ".", "0">>),
            WithValue(NonReflexiveShard(4, 7, <<2>>, 1), "index",
                      <<"7", "/", "x">>),
            WithValue(ReflexiveShard(4, FALSE, 7, <<4>>, 2), "index",
                      <<"s", "e", "v", "e", "n">>),
            WithValue(ReflexiveShard(4, FALSE, 7, <<4>>, 2), "ip",
                      BoolText(FALSE))}

\* files whose column count is not the one their flags announce
ColumnDefectShards ==
    {WithoutLastColumn(NonReflexiveShard(4, 7, <<2>>, 1)),
     WithoutLastColumn(NonReflexiveShard(4, 7, <<>>, 1)),
     WithoutLastColumn(ReflexiveShard(4, FALSE, 7, <<1, 2, 3>>, 2)),
     WithFurtherColumn(NonIpShard(4, 7, <<3>>, 1)),
     WithFurtherColumn(NonReflexiveShard(4, 9, <<3, 4>>, 2))}

Shards == WellFormedShards \cup MetadataDefectShards \cup ColumnDefectShards

\* main, lines 822 and 850-860: the tiers and the index before the first
\* file is read
ParquetInBegin ==
    /\ pc = "read_parquet"
    /\ shard = 0
    /\ non_ip = NonIpPolytopeInfo_default
    /\ non_reflexive = NonReflexivePolytopeInfo_default
    /\ reflexive = ReflexivePolytopeInfo_default
    /\ dimension = 0 /\ numerator = 0 /\ denominator = 0
    /\ non_ip_pos = 0 /\ non_reflexive_pos = 0 /\ reflexive_pos = 0
    /\ non_ip_weights = <<>> /\ non_reflexive_weights = <<>>
    /\ reflexive_weights = <<>>
    /\ ws_buf = <<>> /\ pi_buf = <<>>
    /\ ws_file = <<>> /\ pi_file = <<>>
    /\ ReadIdle
    /\ row_group_size = 0
    /\ parquet_non_ip_out = NoFile
    /\ parquet_non_reflexive_out = NoFile
    /\ parquet_reflexive_out = NoFile
    /\ io_fails = {}
    /\ polytope_info = NoInfo /\ palp_parquet = NoFile /\ palp_info = NoInfo
    /\ palp_text = <<>>

InitShards ==
    /\ VarintIdle
    /\ ParquetInBegin
    /\ include_derived_quantities = FALSE
    /\ limit \in Limits
    /\ \E n \in 1..MaxShards : parquet_in \in [1..n -> Shards]

NextShards == ReadParquet \/ ReadParquetEnd

SpecShards == InitShards /\ [][NextShards]_vars

\* the records a tier holds
TierCount(tier) ==
    IF Len(tier.weight_lists) = 0 THEN 0 ELSE Len(tier.weight_lists[1])

\* all files of parquet_in were read and the tiers are handed to the merge
HandedToMerge == pc = "write_weights" /\ shard = Len(parquet_in)

\* C11: with a row limit L, the tiers that the columnar reader hands to the
\* merge hold at most L records in total, whatever files were read.
C11_RowLimit ==
    HandedToMerge =>
        TierCount(non_ip) + TierCount(non_reflexive) + TierCount(reflexive)
            <= limit

-----------------------------------------------------------------------------
(* A conversion to columnar files and a conversion back from them          *)

\* main, lines 850-858, of a later run whose --parquet-in names the three
\* files the earlier run wrote
ParquetReopen ==
    /\ pc = "parquet_written"
    /\ pc' = "read_parquet"
    /\ parquet_in' = <<parquet_non_ip_out, parquet_non_reflexive_out,
                       parquet_reflexive_out>>
    /\ shard' = 0
    /\ non_ip' = NonIpPolytopeInfo_default
    /\ non_reflexive' = NonReflexivePolytopeInfo_default
    /\ reflexive' = ReflexivePolytopeInfo_default
    /\ dimension' = 0 /\ numerator' = 0 /\ denominator' = 0
    /\ UNCHANGED <<include_derived_quantities, readVars>>
    /\ UNCHANGED <<row_group_size, parquet_non_ip_out,
                   parquet_non_reflexive_out, parquet_reflexive_out,
                   io_fails, palpVars>>
    /\ UNCHANGED <<varintVars, mergeVars, fileVars>>

\* the most rows a tier written to a columnar file holds
MaxTierRows == 5

\* the most rows a row group holds (ROW_GROUP_SIZE of the model)
MaxRowGroupSize == 3

\* the weight lists of n weight systems, ascending and all different
ColumnarWeightLists(dim, n) ==
    [i \in 1..dim |-> [r \in 1..n |-> IF i = 1 THEN 100 + r ELSE 200 + i]]

PlaceholderRows(n) == [r \in 1..n |-> 1]

\* the tiers read_polytope_info returns for n records of a tier
ColumnarNonIp(dim, n) ==
    [NonIpTier(dim, PlaceholderRows(n)) EXCEPT
        !.weight_lists = ColumnarWeightLists(dim, n)]

ColumnarNonReflexive(dim, n) ==
    [NonReflexiveTier(dim, PlaceholderRows(n)) EXCEPT
        !.weight_lists = ColumnarWeightLists(dim, n)]

ColumnarReflexive(dim, derived, n) ==
    [ReflexiveTier(dim, derived, PlaceholderRows(n)) EXCEPT
        !.weight_lists = ColumnarWeightLists(dim, n)]

\* main after read_polytope_info returned, line 836: the tiers in memory,
\* about to be written to the three columnar files
TiersInMemory ==
    /\ pc = "done"
    /\ dimension = 0 /\ numerator = 0 /\ denominator = 0
    /\ non_ip = <<>> /\ non_reflexive = <<>> /\ reflexive = <<>>
    /\ non_ip_pos = 0 /\ non_reflexive_pos = 0 /\ reflexive_pos = 0
    /\ non_ip_weights = <<>> /\ non_reflexive_weights = <<>>
    /\ reflexive_weights = <<>>
    /\ ws_buf = <<>> /\ pi_buf = <<>>
    /\ ws_file = <<>> /\ pi_file = <<>>
    /\ limit = NoLimit
    /\ weights = <<>> /\ cursor = 1 /\ chunk = 0
    /\ outcome = [kind |-> "ok", msg |-> "", file |-> "", at |-> 0]
    /\ \E c \in Configs, a \in 0..MaxTierRows, b \in 0..MaxTierRows,
          r \in 0..MaxTierRows :
          /\ read_dimension = c[1]
          /\ include_derived_quantities = c[2]
          /\ index = FormatIndex(U32FromNat(c[3]), U32FromNat(c[4]))
          /\ read_non_ip = ColumnarNonIp(c[1], a)
          /\ read_non_reflexive = ColumnarNonReflexive(c[1], b)
          /\ read_reflexive = ColumnarReflexive(c[1], c[2], r)
    /\ row_group_size \in 1..MaxRowGroupSize
    /\ parquet_non_ip_out = NoFile
    /\ parquet_non_reflexive_out = NoFile
    /\ parquet_reflexive_out = NoFile
    /\ parquet_in = <<>> /\ shard = 0
    /\ polytope_info = NoInfo /\ palp_parquet = NoFile /\ palp_info = NoInfo
    /\ palp_text = <<>>

\* the tiers in memory; the file system refuses nothing
InitColumnar == VarintIdle /\ TiersInMemory /\ io_fails = {}

NextColumnar ==
    \/ WriteParquetNonIp
    \/ WriteParquetNonReflexive
    \/ WriteParquetReflexive
    \/ ParquetReopen
    \/ ReadParquet
    \/ ReadParquetEnd

SpecColumnar == InitColumnar /\ [][NextColumnar]_vars

-----------------------------------------------------------------------------
(* The index from the binary header to the columnar metadata and back      *)

\* the header values the index is made of: small ones, several digits, and
\* the values around 2^31 and 2^32
IndexValues ==
    {U32FromNat(n) : n \in {0, 1, 3, 4, 7, 10, 99, 1000000000, MaxI32 - 1,
                            MaxI32}}
      \cup {OneHot(U32Bits - 1), OneHotPlusOne(U32Bits - 1),
            LowOnes(U32Bits)}

\* a weights file of no weight systems whose header holds the index
IndexWeightsFile(dim, num, den) ==
    PutU32(U32FromNat(dim)) \o PutU32(num) \o PutU32(den) \o PutU64(0)

\* a binary pair without records, on disk; its conversion writes the index
\* into the metadata of the three columnar files
InitIndex ==
    /\ VarintIdle
    /\ pc = "on_disk"
    /\ dimension = 0 /\ numerator = 0 /\ denominator = 0
    /\ non_ip = <<>> /\ non_reflexive = <<>> /\ reflexive = <<>>
    /\ non_ip_pos = 0 /\ non_reflexive_pos = 0 /\ reflexive_pos = 0
    /\ non_ip_weights = <<>> /\ non_reflexive_weights = <<>>
    /\ reflexive_weights = <<>>
    /\ ws_buf = <<>> /\ pi_buf = <<>>
    /\ include_derived_quantities = FALSE
    /\ \E num \in IndexValues, den \in IndexValues :
          ws_file = IndexWeightsFile(4, num, den)
    /\ pi_file = <<>>
    /\ limit = NoLimit
    /\ ReadIdle
    /\ row_group_size = 1
    /\ parquet_non_ip_out = NoFile
    /\ parquet_non_reflexive_out = NoFile
    /\ parquet_reflexive_out = NoFile
    /\ parquet_in = <<>> /\ shard = 0
    /\ io_fails = {}
    /\ polytope_info = NoInfo /\ palp_parquet = NoFile /\ palp_info = NoInfo
    /\ palp_text = <<>>

NextIndex ==
    \/ ReadWeights
    \/ ReadPolytopeInfoBegin
    \/ ReadPolytopeInfoEnd
    \/ WriteParquetNonIp
    \/ WriteParquetNonReflexive
    \/ WriteParquetReflexive
    \/ ParquetReopen
    \/ ReadParquet
    \/ ReadParquetEnd

SpecIndex == InitIndex /\ [][NextIndex]_vars

\* the numerator and the denominator of the header of the weights file
HeaderNumerator == GetU32(ws_file, 5)

HeaderDenominator == GetU32(ws_file, 9)

\* the value of a decimal text without its last digit
RECURSIVE DecimalValue(_)
DecimalValue(text) ==
    IF Len(text) = 0 THEN 0
    ELSE 10 * DecimalValue(SubSeq(text, 1, Len(text) - 1))
            + DigitValue(text[Len(text)])

\* text is the decimal numeral of the u32 u, without sign or leading zeros
IsNumeralOf(text, u) ==
    /\ Len(text) \in 1..10
    /\ \A i \in 1..Len(text) : IsDigit(text[i])
    /\ Len(text) > 1 => text[1] # "0"
    /\ LET front == DecimalValue(SubSeq(text, 1, Len(text) - 1))
           last == DigitValue(text[Len(text)])
       IN  IF u.hi = 0
           THEN /\ front <= 214748364
                /\ front = 214748364 => last <= 7
                /\ 10 * front + last = u.lo
           ELSE \/ /\ last - 8 = u.lo % 10
                   /\ front - 214748364 = u.lo \div 10
                \/ /\ last + 2 = u.lo % 10
                   /\ front - 214748364 = (u.lo \div 10) + 1

\* the position of the first "/" of a text, 0 if it has none
FirstSlash(text) ==
    IF \E i \in 1..Len(text) : text[i] = "/"
    THEN CHOOSE i \in 1..Len(text) :
            text[i] = "/" /\ \A j \in 1..(i - 1) : text[j] # "/"
    ELSE 0

\* the index text is "num" when the denominator is 1, "num/den" otherwise
IndexRendered ==
    IF HeaderDenominator = U32FromNat(1)
    THEN IsNumeralOf(index, HeaderNumerator)
    ELSE /\ FirstSlash(index) > 0
         /\ IsNumeralOf(SubSeq(index, 1, FirstSlash(index) - 1),
                        HeaderNumerator)
         /\ IsNumeralOf(SubSeq(index, FirstSlash(index) + 1, Len(index)),
                        HeaderDenominator)

\* the first columnar file of the later run was read, or refused
IndexParsed ==
    \/ pc = "read_parquet" /\ shard > 0
    \/ pc = "failed" /\ outcome.file = "parquet_in"

\* C12: the index of the binary header is rendered as "num" when the
\* denominator is 1 and as "num/den" otherwise, and parse_parquet_metadata
\* parses the text of the columnar file back to the pair of the header, for
\* every pair of unsigned 32-bit values.
C12_IndexRoundTrip ==
    /\ pc \notin {"on_disk", "failed"} => IndexRendered
    /\ IndexParsed =>
          /\ outcome.kind = "ok"
          /\ numerator >= 0 /\ denominator >= 0
          /\ U32FromNat(numerator) = HeaderNumerator
          /\ U32FromNat(denominator) = HeaderDenominator

-----------------------------------------------------------------------------
(* Columnar files: properties                                              *)

\* write_parquet has written its three files
ParquetWritten ==
    /\ parquet_non_ip_out.exists
    /\ parquet_non_reflexive_out.exists
    /\ parquet_reflexive_out.exists

\* the position (from 1) of a name in a list of names, 0 if it is not there
PositionIn(names, name) ==
    IF \E i \in 1..Len(names) : names[i] = name
    THEN CHOOSE i \in 1..Len(names) : names[i] = name
    ELSE 0

\* the list of a tier that a column of the given name holds
ListOfField(tier, name) ==
    IF PositionIn(WeightFieldNames, name) > 0
    THEN tier.weight_lists[PositionIn(WeightFieldNames, name)]
    ELSE IF PositionIn(HodgeFieldNames, name) > 0
    THEN tier.hodge_number_lists[PositionIn(HodgeFieldNames, name)]
    ELSE IF name = "h22" THEN tier.hodge_number_lists[4]
    ELSE IF name = "vertex_count" THEN tier.vertex_count_list
    ELSE IF name = "facet_count" THEN tier.facet_count_list
    ELSE IF name = "point_count" THEN tier.point_count_list
    ELSE IF name = "dual_point_count" THEN tier.dual_point_count_list
    ELSE tier.euler_characteristic_list

\* every row group of the file holds one column per name, in the order of
\* the names, each the rows of the group of the list of that name
ColumnsInOrder(file, names, tier, row_count) ==
    /\ file.schema = names
    /\ Len(file.row_groups) = row_group_count(row_count, row_group_size)
    /\ \A g \in 1..Len(file.row_groups) :
          /\ Len(file.row_groups[g].columns) = Len(names)
          /\ \A c \in 1..Len(names) :
                file.row_groups[g].columns[c].values =
                    SubSeq(ListOfField(tier, names[c]),
                           (g - 1) * row_group_size + 1,
                           Min(g * row_group_size, row_count))

\* the column names of the three tiers in dimension dim
NonIpNames(dim) == SubSeq(WeightFieldNames, 1, dim)

NonReflexiveNames(dim) ==
    NonIpNames(dim) \o <<"vertex_count", "facet_count", "point_count">>

ReflexiveNamesBeforeDerived(dim) ==
    NonReflexiveNames(dim) \o <<"dual_point_count">>
        \o SubSeq(HodgeFieldNames, 1, dim - 3)

\* the two lower tiers are written as the claim says
LowerTiersAsClaimed ==
    /\ ColumnsInOrder(parquet_non_ip_out, NonIpNames(read_dimension),
                      read_non_ip, TierCount(read_non_ip))
    /\ ColumnsInOrder(parquet_non_reflexive_out,
                      NonReflexiveNames(read_dimension),
                      read_non_reflexive, TierCount(read_non_reflexive))

\* C13 as stated: the reflexive file has the weights, the four counts,
\* dimension-3 Hodge-number columns and then exactly one further column,
\* the Euler characteristic, if and only if dimension = 6 and derived
\* quantities are requested; the columns of every row group are in that
\* order.
C13_OneFurtherColumn ==
    ParquetWritten =>
        /\ LowerTiersAsClaimed
        /\ ColumnsInOrder(
              parquet_reflexive_out,
              ReflexiveNamesBeforeDerived(read_dimension)
                  \o (IF derived6 THEN <<"euler_characteristic">> ELSE <<>>),
              read_reflexive, TierCount(read_reflexive))

\* C13 (amended): the column lists depend only on (dimension, tier, derived
\* flag): non-IP has weight0..weight{d-1}; non-reflexive has those and
\* vertex_count, facet_count, point_count; reflexive has those,
\* dual_point_count, h11..h1{d-3} and, if and only if dimension = 6 and
\* derived quantities are requested, exactly two further columns, h22
\* followed by euler_characteristic; every row group holds the columns in
\* exactly that order.
C13_SchemaConstruction ==
    ParquetWritten =>
        /\ LowerTiersAsClaimed
        /\ ColumnsInOrder(
              parquet_reflexive_out,
              ReflexiveNamesBeforeDerived(read_dimension)
                  \o (IF derived6 THEN <<"h22", "euler_characteristic">>
                      ELSE <<>>),
              read_reflexive, TierCount(read_reflexive))

\* a reflexive file of dimension 6 with derived quantities, in several row
\* groups, the last one partial, was written
C13_Witness ==
    /\ ParquetWritten
    /\ derived6
    /\ Len(parquet_reflexive_out.schema) = 15
    /\ Len(parquet_reflexive_out.row_groups) = 3
    /\ parquet_reflexive_out.row_groups[3].num_rows < row_group_size
    /\ Len(parquet_non_reflexive_out.row_groups) > 0
    /\ Len(parquet_non_ip_out.row_groups) > 0

-----------------------------------------------------------------------------
(* palp.rs: write_parquet (213-320) and read_parquet (322-387)             *)
(*                                                                         *)
(* A PolytopeInfo holds the coordinates of all records in one list, vertex *)
(* after vertex, vertex_count_list[r] * dimension of them for record r.    *)

\* #[derive(Default)] of PolytopeInfo, palp.rs:15-25
PolytopeInfo_default ==
    [dimension |-> 0, coordinate_list |-> <<>>,
     vertex_count_list |-> <<>>, facet_count_list |-> <<>>,
     point_count_list |-> <<>>, dual_point_count_list |-> <<>>,
     euler_characteristic_list |-> <<>>, hodge_number_lists |-> <<>>]

\* the repetition level that marks every first coordinate of a vertex as
\* the start of a record
repetition_level_per_vertex(v, i) == IF i = 0 THEN 0 ELSE 2

\* lines 276-282: the repetition level of coordinate i of vertex v
repetition_level(v, i) ==
    IF v = 0 /\ i = 0 THEN 0
    ELSE IF i = 0 THEN 1
    ELSE 2

\* lines 272-285: the levels pushed for the records of a row group, record
\* after record, vertex after vertex
RECURSIVE coordinate_repetition_levels(_, _)
coordinate_repetition_levels(counts, dim) ==
    IF Len(counts) = 0 THEN <<>>
    ELSE [p \in 1..(counts[1] * dim) |->
            repetition_level((p - 1) \div dim, (p - 1) % dim)]
            \o coordinate_repetition_levels(Tail(counts), dim)

\* every record taken to have one vertex
coordinate_end_one_vertex(counts, dim, n) == n * dim

\* lines 273-274: coordinate_end after the first n records
RECURSIVE coordinate_end(_, _, _)
coordinate_end(counts, dim, n) ==
    IF n = 0 THEN 0
    ELSE coordinate_end(counts, dim, n - 1) + counts[n] * dim

\* write_repeated_parquet_int_column, parquet_utils.rs:65-83
RepeatedIntColumn(data, definition_levels, repetition_levels) ==
    [values |-> data, definition_levels |-> definition_levels,
     repetition_levels |-> repetition_levels]

\* lines 228-249: the fields of the schema
palp_fields(dim) ==
    <<"vertices", "vertex_count", "facet_count", "point_count",
      "dual_point_count">>
        \o [i \in 1..(dim - 2) |-> HodgeFieldNames[i]]
        \o <<"euler_characteristic">>

\* lines 264-315: row group g (from 1) of the file
PalpRowGroup(info, g, size) ==
    LET row_count == Len(info.vertex_count_list)
        start == (g - 1) * size
        end == Min(start + size, row_count)
        coordinate_start ==
            coordinate_end(info.vertex_count_list, info.dimension, start)
        coordinate_stop ==
            coordinate_end(info.vertex_count_list, info.dimension, end)
    IN  [num_rows |-> end - start,
         columns |->
            <<RepeatedIntColumn(
                  Slice(info.coordinate_list, coordinate_start,
                        coordinate_stop),
                  [p \in 1..(coordinate_stop - coordinate_start) |-> 2],
                  coordinate_repetition_levels(
                      Slice(info.vertex_count_list, start, end),
                      info.dimension))>>
              \o <<IntColumn(Slice(info.vertex_count_list, start, end)),
                   IntColumn(Slice(info.facet_count_list, start, end)),
                   IntColumn(Slice(info.point_count_list, start, end)),
                   IntColumn(Slice(info.dual_point_count_list, start, end))>>
              \o [h \in 1..Len(info.hodge_number_lists) |->
                    IntColumn(Slice(info.hodge_number_lists[h], start, end))]
              \o <<IntColumn(Slice(info.euler_characteristic_list,
                                   start, end))>>]

\* write_parquet(path, info), lines 213-320
PalpWriteParquet ==
    /\ pc = "palp_write"
    /\ palp_parquet' =
          [exists |-> TRUE,
           metadata |-> <<>>,
           schema |-> palp_fields(polytope_info.dimension),
           row_groups |->
              [g \in 1..row_group_count(Len(polytope_info.vertex_count_list),
                                        row_group_size) |->
                  PalpRowGroup(polytope_info, g, row_group_size)]]
    /\ pc' = "palp_written"
    /\ UNCHANGED <<polytope_info, palp_info, palp_text>>
    /\ UNCHANGED <<varintVars, datasetVars, mergeVars, fileVars, readVars,
                   parquetVars>>

\* lines 342-372: the values of column c of all row groups, one group after
\* the other
RECURSIVE PalpColumnValues(_, _)
PalpColumnValues(row_groups, c) ==
    IF Len(row_groups) = 0 THEN <<>>
    ELSE row_groups[1].columns[c].values
            \o PalpColumnValues(Tail(row_groups), c)

\* read_parquet(path, &mut info), lines 322-387; the file has a row group
PalpReadParquet ==
    /\ pc = "palp_written"
    /\ Len(palp_parquet.row_groups) > 0
    /\ LET palp_columns == Len(palp_parquet.row_groups[1].columns)
           dim == palp_columns - 4
           values == [c \in 1..palp_columns |->
                        PalpColumnValues(palp_parquet.row_groups, c)]
       IN  palp_info' =
              [dimension |-> dim,
               coordinate_list |-> values[1],
               vertex_count_list |-> values[2],
               facet_count_list |-> values[3],
               point_count_list |-> values[4],
               dual_point_count_list |-> values[5],
               hodge_number_lists |-> SubSeq(values, 6, 6 + (dim - 2) - 1),
               euler_characteristic_list |-> values[6 + (dim - 2)]]
    /\ pc' = "palp_read"
    /\ UNCHANGED <<polytope_info, palp_parquet, palp_text>>
    /\ UNCHANGED <<varintVars, datasetVars, mergeVars, fileVars, readVars,
                   parquetVars>>

\* the most records a PolytopeInfo of the model holds
MaxPolytopes == 3

\* the vertex counts of the records of the model
PalpVertexCounts == {3, 4, 5}

\* the coordinates of records of the given vertex counts
RECURSIVE CoordinateCount(_, _)
CoordinateCount(counts, dim) ==
    IF Len(counts) = 0 THEN 0
    ELSE counts[1] * dim + CoordinateCount(Tail(counts), dim)

\* the PolytopeInfo parse_palp returns for records of the given vertex
\* counts in dimension dim: all coordinates are different
PalpInfo(dim, counts) ==
    [dimension |-> dim,
     coordinate_list |->
        [k \in 1..CoordinateCount(counts, dim) |-> k - 7],
     vertex_count_list |-> counts,
     facet_count_list |-> [r \in 1..Len(counts) |-> 10 + r],
     point_count_list |-> [r \in 1..Len(counts) |-> 20 + r],
     dual_point_count_list |-> [r \in 1..Len(counts) |-> 30 + r],
     euler_characteristic_list |-> [r \in 1..Len(counts) |-> 0 - 200 - r],
     hodge_number_lists |->
        [h \in 1..(dim - 2) |-> [r \in 1..Len(counts) |-> 100 * h + r]]]

\* run, lines 390-393: parse_palp has returned, the file is to be written;
\* a later run, line 395, starts from PolytopeInfo::default()
InitPalp ==
    /\ VarintIdle
    /\ pc = "palp_write"
    /\ dimension = 0 /\ numerator = 0 /\ denominator = 0
    /\ non_ip = <<>> /\ non_reflexive = <<>> /\ reflexive = <<>>
    /\ include_derived_quantities = FALSE
    /\ limit = NoLimit
    /\ non_ip_pos = 0 /\ non_reflexive_pos = 0 /\ reflexive_pos = 0
    /\ non_ip_weights = <<>> /\ non_reflexive_weights = <<>>
    /\ reflexive_weights = <<>>
    /\ ws_buf = <<>> /\ pi_buf = <<>>
    /\ ws_file = <<>> /\ pi_file = <<>>
    /\ ReadIdle
    /\ row_group_size \in 1..MaxRowGroupSize
    /\ parquet_non_ip_out = NoFile
    /\ parquet_non_reflexive_out = NoFile
    /\ parquet_reflexive_out = NoFile
    /\ parquet_in = <<>> /\ shard = 0
    /\ io_fails = {}
    /\ \E dim \in {3, 4}, n \in 1..MaxPolytopes :
          \E counts \in [1..n -> {v \in PalpVertexCounts : v >= dim}] :
              polytope_info = PalpInfo(dim, counts)
    /\ palp_parquet = NoFile
    /\ palp_info = PolytopeInfo_default
    /\ palp_text = <<>>

NextPalp == PalpWriteParquet \/ PalpReadParquet

SpecPalp == InitPalp /\ [][NextPalp]_vars

-----------------------------------------------------------------------------
(* format_palp and parse_palp, palp.rs:34-211                              *)
(*                                                                         *)
(* A text is a sequence of characters, "\n" ending each line.              *)

\* i32::to_string and format!("{}", x)
FormatI32(n) == IF n < 0 THEN <<"-">> \o DecimalOf(0 - n) ELSE DecimalOf(n)

\* format!("{:5}", x): the number with blanks before it up to five
\* characters, and no blank when it takes five or more
FormatWidth5(n) ==
    [i \in 1..(5 - Len(FormatI32(n))) |-> " "] \o FormatI32(n)

\* hs.join(",")
RECURSIVE JoinComma(_)
JoinComma(texts) ==
    IF Len(texts) = 0 THEN <<>>
    ELSE IF Len(texts) = 1 THEN texts[1]
    ELSE texts[1] \o <<",">> \o JoinComma(Tail(texts))

\* lines 169-185: the header line of record i (from 1)
format_header(info, i) ==
    FormatI32(info.dimension) \o <<" ">>
      \o FormatI32(info.vertex_count_list[i]) \o <<" ", " ", "M", ":">>
      \o FormatI32(info.point_count_list[i]) \o <<" ">>
      \o FormatI32(info.vertex_count_list[i]) \o <<" ", "N", ":">>
      \o FormatI32(info.dual_point_count_list[i]) \o <<" ">>
      \o FormatI32(info.facet_count_list[i]) \o <<" ", "H", ":">>
      \o JoinComma([h \in 1..Len(info.hodge_number_lists) |->
                      FormatI32(info.hodge_number_lists[h][i])])
      \o <<" ", "[">> \o FormatI32(info.euler_characteristic_list[i])
      \o <<"]", "\n">>

\* lines 202-207: one line per coordinate i, the vertices side by side
RECURSIVE format_coordinate_lines(_, _, _, _)
format_coordinate_lines(coordinates, dim, vertex_count, i) ==
    IF i >= dim THEN <<>>
    ELSE Flatten([j \in 1..vertex_count |->
                    FormatWidth5(coordinates[(j - 1) * dim + i + 1])])
            \o <<"\n">>
            \o format_coordinate_lines(coordinates, dim, vertex_count, i + 1)

\* lines 168-209: the records from number i on, coord_index coordinates
\* being written already; a coordinate list too short for its vertex
\* counts is indexed beyond its end
RECURSIVE format_records(_, _, _)
format_records(info, i, coord_index) ==
    IF i > Len(info.vertex_count_list) THEN [kind |-> "ok", text |-> <<>>]
    ELSE
      LET vertex_count == info.vertex_count_list[i]
          taken == Min(vertex_count * info.dimension,
                       Len(info.coordinate_list) - coord_index)
          coordinates == Slice(info.coordinate_list, coord_index,
                               coord_index + taken)
      IN  IF taken < vertex_count * info.dimension
          THEN [kind |-> "panic", text |-> <<>>]
          ELSE
            LET rest == format_records(info, i + 1, coord_index + taken)
            IN  [kind |-> rest.kind,
                 text |-> format_header(info, i)
                            \o format_coordinate_lines(
                                  coordinates, info.dimension, vertex_count, 0)
                            \o rest.text]

\* format_palp(info), lines 164-211
format_palp(info) == format_records(info, 1, 0)

\* str::lines: the lines of a text without their "\n"; a last line needs
\* none
Lines(text) ==
    LET ends == {p \in 1..Len(text) : text[p] = "\n"}
                  \cup (IF Len(text) > 0 /\ text[Len(text)] # "\n"
                        THEN {Len(text) + 1} ELSE {})
        end(k) == CHOOSE p \in ends : Cardinality({q \in ends : q < p}) = k - 1
    IN  [k \in 1..Cardinality(ends) |->
            SubSeq(text, IF k = 1 THEN 1 ELSE end(k - 1) + 1, end(k) - 1)]

\* char::is_whitespace on the characters of the model
IsWhitespace(c) == c \in {" ", "\t"}

\* the character at position p of a line, "" beyond its end
CharAt(line, p) == IF p \in 1..Len(line) THEN line[p] ELSE ""

\* the first position from p on that holds no white space, no digit
RECURSIVE SkipWhitespace(_, _)
SkipWhitespace(line, p) ==
    IF IsWhitespace(CharAt(line, p)) THEN SkipWhitespace(line, p + 1) ELSE p

RECURSIVE SkipDigits(_, _)
SkipDigits(line, p) ==
    IF IsDigit(CharAt(line, p)) THEN SkipDigits(line, p + 1) ELSE p

\* [0-9]+ (, [0-9]+)* from p on: the position after it, p if there is
\* no digit at p
RECURSIVE SkipHodgeNumbers(_, _)
SkipHodgeNumbers(line, p) ==
    LET q == SkipDigits(line, p)
    IN  IF q > p /\ CharAt(line, q) = "," /\ IsDigit(CharAt(line, q + 1))
        THEN SkipHodgeNumbers(line, q + 1)
        ELSE q

\* str::split(",") of digits and commas
RECURSIVE SplitComma(_, _)
SplitComma(text, piece) ==
    IF Len(text) = 0 THEN <<piece>>
    ELSE IF text[1] = "," THEN <<piece>> \o SplitComma(Tail(text), <<>>)
    ELSE SplitComma(Tail(text), Append(piece, text[1]))

\* line.split(" ").filter(|x| !x.is_empty())
RECURSIVE SplitBlanks(_, _)
SplitBlanks(text, piece) ==
    IF Len(text) = 0 THEN (IF Len(piece) = 0 THEN <<>> ELSE <<piece>>)
    ELSE IF text[1] = " "
    THEN (IF Len(piece) = 0 THEN <<>> ELSE <<piece>>)
            \o SplitBlanks(Tail(text), <<>>)
    ELSE SplitBlanks(Tail(text), Append(piece, text[1]))

\* x.parse() on every text of a list: the i32 values, or the first failure
ParseAllI32(texts) ==
    [ok |-> \A i \in 1..Len(texts) : ParseI32(texts[i]).ok,
     values |-> [i \in 1..Len(texts) |-> ParseI32(texts[i]).value]]

\* a header that was not read
NoHeader(msg) ==
    [kind |-> "err", msg |-> msg, rows |-> 0, columns |-> 0,
     point_count |-> 0, vertex_count |-> 0, dual_point_count |-> 0,
     facet_count |-> 0, hodge_numbers |-> <<>>, euler_characteristic |-> 0]

\* parse_header(line), lines 45-80.  The expression is matched from the
\* start of the line, each run of digits as far as it goes: a shorter run
\* would put a digit where white space or a sign has to follow.
parse_header(line) ==
    LET rows_at == SkipWhitespace(line, 1)
        rows_end == SkipDigits(line, rows_at)
        columns_at == SkipWhitespace(line, rows_end)
        columns_end == SkipDigits(line, columns_at)
        m_at == SkipWhitespace(line, columns_end)
        point_end == SkipDigits(line, m_at + 2)
        vertex_at == SkipWhitespace(line, point_end)
        vertex_end == SkipDigits(line, vertex_at)
        n_at == SkipWhitespace(line, vertex_end)
        dual_end == SkipDigits(line, n_at + 2)
        facet_at == SkipWhitespace(line, dual_end)
        facet_end == SkipDigits(line, facet_at)
        h_at == SkipWhitespace(line, facet_end)
        hodge_end == SkipHodgeNumbers(line, h_at + 2)
        bracket_at == SkipWhitespace(line, hodge_end)
        euler_at == IF CharAt(line, bracket_at + 1) = "-"
                    THEN bracket_at + 2 ELSE bracket_at + 1
        euler_end == SkipDigits(line, euler_at)
        matches ==
            /\ rows_end > rows_at
            /\ columns_at > rows_end /\ columns_end > columns_at
            /\ m_at > columns_end
            /\ CharAt(line, m_at) = "M" /\ CharAt(line, m_at + 1) = ":"
            /\ point_end > m_at + 2
            /\ vertex_at > point_end /\ vertex_end > vertex_at
            /\ n_at > vertex_end
            /\ CharAt(line, n_at) = "N" /\ CharAt(line, n_at + 1) = ":"
            /\ dual_end > n_at + 2
            /\ facet_at > dual_end /\ facet_end > facet_at
            /\ h_at > facet_end
            /\ CharAt(line, h_at) = "H" /\ CharAt(line, h_at + 1) = ":"
            /\ hodge_end > h_at + 2
            /\ bracket_at > hodge_end
            /\ CharAt(line, bracket_at) = "["
            /\ euler_end > euler_at
            /\ CharAt(line, euler_end) = "]"
    IN  IF ~matches THEN NoHeader("invalid header")
        ELSE
          LET rows == ParseUsize(SubSeq(line, rows_at, rows_end - 1))
              columns == ParseUsize(SubSeq(line, columns_at, columns_end - 1))
              point == ParseI32(SubSeq(line, m_at + 2, point_end - 1))
              vertex == ParseI32(SubSeq(line, vertex_at, vertex_end - 1))
              dual == ParseI32(SubSeq(line, n_at + 2, dual_end - 1))
              facet == ParseI32(SubSeq(line, facet_at, facet_end - 1))
              euler == ParseI32(SubSeq(line, bracket_at + 1, euler_end - 1))
              hodge == ParseAllI32(
                          SplitComma(SubSeq(line, h_at + 2, hodge_end - 1),
                                     <<>>))
          IN  IF ~(rows.ok /\ columns.ok /\ point.ok /\ vertex.ok /\ dual.ok
                     /\ facet.ok /\ euler.ok /\ hodge.ok)
              THEN NoHeader("ParseIntError")
              ELSE [kind |-> "ok", msg |-> "",
                    rows |-> rows.value, columns |-> columns.value,
                    point_count |-> point.value,
                    vertex_count |-> vertex.value,
                    dual_point_count |-> dual.value,
                    facet_count |-> facet.value,
                    hodge_numbers |-> hodge.values,
                    euler_characteristic |-> euler.value]

\* parse_coordinates(&header, &mut lines), lines 82-102: the next
\* header.rows lines of the text, those after line number at
RECURSIVE parse_coordinates(_, _, _, _)
parse_coordinates(header, lines, at, ret) ==
    IF Len(ret) = header.rows
    THEN [kind |-> "ok", msg |-> "", coordinates |-> ret]
    ELSE IF at + Len(ret) + 1 > Len(lines)
    THEN [kind |-> "err", msg |-> "incomplete input", coordinates |-> <<>>]
    ELSE
      LET values == ParseAllI32(SplitBlanks(lines[at + Len(ret) + 1], <<>>))
      IN  IF ~values.ok
          THEN [kind |-> "err", msg |-> "ParseIntError",
                coordinates |-> <<>>]
          ELSE IF Len(values.values) # header.columns
          THEN [kind |-> "err", msg |-> "invalid coordinate count",
                coordinates |-> <<>>]
          ELSE parse_coordinates(header, lines, at,
                                 Append(ret, values.values))

\* PolytopeInfo::resize, lines 27-32
palp_resize(info, dim) ==
    [info EXCEPT !.dimension = dim,
                 !.hodge_number_lists = ResizeLists(@, dim - 2)]

\* lines 139-151: the coordinates of a record in the order they are
\* pushed, vertex after vertex, with the matrix read as the code reads it
push_order(header, coordinates) ==
    LET dim == Min(header.rows, header.columns)
        vertex_count == IF header.rows >= header.columns
                        THEN header.rows ELSE header.columns
    IN  [p \in 1..(vertex_count * dim) |->
            IF header.rows < header.columns
            THEN coordinates[((p - 1) % dim) + 1][((p - 1) \div dim) + 1]
            ELSE coordinates[((p - 1) \div dim) + 1][((p - 1) % dim) + 1]]

\* what parse_palp returns: Ok(info), an Err or a panic
PalpResult(kind, msg, info) == [kind |-> kind, msg |-> msg, info |-> info]

\* lines 109-160: the loop over the lines from number at on
RECURSIVE parse_lines(_, _, _)
parse_lines(lines, at, ret) ==
    IF at > Len(lines)
    THEN (IF ret.dimension = 0
          THEN PalpResult("err", "no polytopes read", PolytopeInfo_default)
          ELSE PalpResult("ok", "", ret))
    ELSE IF ~IsDigit(CharAt(lines[at], SkipWhitespace(lines[at], 1)))
    THEN parse_lines(lines, at + 1, ret)
    ELSE
      LET header == parse_header(lines[at])
          body == parse_coordinates(header, lines, at, <<>>)
          dim == Min(header.rows, header.columns)
          vertex_count == IF header.rows >= header.columns
                          THEN header.rows ELSE header.columns
          sized == IF ret.dimension = 0 THEN palp_resize(ret, dim) ELSE ret
      IN  IF header.kind # "ok"
          THEN PalpResult("err", header.msg, PolytopeInfo_default)
          ELSE IF body.kind # "ok"
          THEN PalpResult("err", body.msg, PolytopeInfo_default)
          ELSE IF ret.dimension = 0 /\ dim < 2
          THEN PalpResult("panic", "dimension", PolytopeInfo_default)
          ELSE IF ret.dimension # 0 /\ ret.dimension # dim
          THEN PalpResult("err", "varing dimension", PolytopeInfo_default)
          ELSE IF Len(header.hodge_numbers) > Len(sized.hodge_number_lists)
          THEN PalpResult("panic", "index out of bounds",
                          PolytopeInfo_default)
          ELSE IF header.vertex_count # vertex_count
          THEN PalpResult("err", "invalid vertex count",
                          PolytopeInfo_default)
          ELSE parse_lines(
                  lines, at + header.rows + 1,
                  [sized EXCEPT
                     !.vertex_count_list = Append(@, header.vertex_count),
                     !.facet_count_list = Append(@, header.facet_count),
                     !.point_count_list = Append(@, header.point_count),
                     !.dual_point_count_list =
                        Append(@, header.dual_point_count),
                     !.euler_characteristic_list =
                        Append(@, header.euler_characteristic),
                     !.hodge_number_lists =
                        [h \in 1..Len(sized.hodge_number_lists) |->
                            IF h <= Len(header.hodge_numbers)
                            THEN Append(sized.hodge_number_lists[h],
                                        header.hodge_numbers[h])
                            ELSE sized.hodge_number_lists[h]],
                     !.coordinate_list =
                        @ \o push_order(header, body.coordinates)])

\* parse_palp(input), lines 104-162
parse_palp(text) == parse_lines(Lines(text), 1, PolytopeInfo_default)

-----------------------------------------------------------------------------
(* Texts handed to parse_palp (run, palp.rs:389-404)                       *)

\* run, lines 394-398: the PolytopeInfo read from the columnar file is
\* formatted and the text written
FormatPalp ==
    /\ pc = "palp_format"
    /\ \E r \in {format_palp(polytope_info)} :
          IF r.kind = "ok"
          THEN /\ palp_text' = r.text
               /\ pc' = "palp_parse"
               /\ UNCHANGED outcome
          ELSE /\ outcome' = [kind |-> r.kind, msg |-> "index out of bounds",
                              file |-> "palp_out", at |-> 0]
               /\ pc' = "failed"
               /\ UNCHANGED palp_text
    /\ UNCHANGED <<limit, read_dimension, index, weights, cursor, chunk,
                   read_non_ip, read_non_reflexive, read_reflexive>>
    /\ UNCHANGED <<polytope_info, palp_parquet, palp_info>>
    /\ UNCHANGED <<varintVars, datasetVars, mergeVars, fileVars, parquetVars>>

\* run, lines 390-392: the text is read and parsed
ParsePalp ==
    /\ pc = "palp_parse"
    /\ \E r \in {parse_palp(palp_text)} :
          IF r.kind = "ok"
          THEN /\ palp_info' = r.info
               /\ pc' = "palp_parsed"
               /\ UNCHANGED outcome
          ELSE /\ outcome' = [kind |-> r.kind, msg |-> r.msg,
                              file |-> "palp_in", at |-> 0]
               /\ pc' = "failed"
               /\ UNCHANGED palp_info
    /\ UNCHANGED <<limit, read_dimension, index, weights, cursor, chunk,
                   read_non_ip, read_non_reflexive, read_reflexive>>
    /\ UNCHANGED <<polytope_info, palp_parquet, palp_text>>
    /\ UNCHANGED <<varintVars, datasetVars, mergeVars, fileVars, parquetVars>>

\* the coordinate that takes the place of the first coordinate of the second
\* vertex of the first record: none, numbers of four characters, and numbers
\* of five characters
WideCoordinates == {0, 9999, 0 - 999, 10000, 0 - 1000}

\* the records of PalpInfo with that coordinate (0: as they are)
PalpTextInfo(dim, counts, wide) ==
    [PalpInfo(dim, counts) EXCEPT
        !.coordinate_list =
            [k \in 1..Len(@) |-> IF k = dim + 1 /\ wide # 0 THEN wide
                                 ELSE @[k]]]

\* numbers on a line, one blank between them
RECURSIVE JoinBlank(_)
JoinBlank(numbers) ==
    IF Len(numbers) = 0 THEN <<>>
    ELSE IF Len(numbers) = 1 THEN FormatI32(numbers[1])
    ELSE FormatI32(numbers[1]) \o <<" ">> \o JoinBlank(Tail(numbers))

\* record i of a PolytopeInfo as a text whose matrix has one vertex in
\* each line (by_rows) or one in each column, and whose header announces
\* excess vertices more than the matrix has
RawRecordText(info, i, by_rows, excess) ==
    LET vertex_count == info.vertex_count_list[i]
        start == CoordinateCount(SubSeq(info.vertex_count_list, 1, i - 1),
                                 info.dimension)
        entry(v, c) == info.coordinate_list[start + (v - 1) * info.dimension + c]
    IN  JoinBlank(IF by_rows THEN <<vertex_count, info.dimension>>
                  ELSE <<info.dimension, vertex_count>>)
          \o <<" ", "M", ":">>
          \o JoinBlank(<<info.point_count_list[i], vertex_count + excess>>)
          \o <<" ", "N", ":">>
          \o JoinBlank(<<info.dual_point_count_list[i],
                         info.facet_count_list[i]>>)
          \o <<" ", "H", ":">>
          \o JoinComma([h \in 1..Len(info.hodge_number_lists) |->
                          FormatI32(info.hodge_number_lists[h][i])])
          \o <<" ", "[">> \o FormatI32(info.euler_characteristic_list[i])
          \o <<"]", "\n">>
          \o (IF by_rows
              THEN Flatten([v \in 1..vertex_count |->
                              JoinBlank([c \in 1..info.dimension |->
                                            entry(v, c)]) \o <<"\n">>])
              ELSE Flatten([c \in 1..info.dimension |->
                              JoinBlank([v \in 1..vertex_count |->
                                            entry(v, c)]) \o <<"\n">>]))

\* all records that way, the last one with the excess
RawPalpText(info, by_rows, excess) ==
    Flatten([i \in 1..Len(info.vertex_count_list) |->
                RawRecordText(info, i, by_rows,
                              IF i = Len(info.vertex_count_list)
                              THEN excess ELSE 0)])

\* a PolytopeInfo about to be formatted, or a text about to be parsed that
\* holds the records of polytope_info
InitPalpText ==
    /\ VarintIdle
    /\ dimension = 0 /\ numerator = 0 /\ denominator = 0
    /\ non_ip = <<>> /\ non_reflexive = <<>> /\ reflexive = <<>>
    /\ include_derived_quantities = FALSE
    /\ limit = NoLimit
    /\ non_ip_pos = 0 /\ non_reflexive_pos = 0 /\ reflexive_pos = 0
    /\ non_ip_weights = <<>> /\ non_reflexive_weights = <<>>
    /\ reflexive_weights = <<>>
    /\ ws_buf = <<>> /\ pi_buf = <<>>
    /\ ws_file = <<>> /\ pi_file = <<>>
    /\ ReadIdle
    /\ row_group_size = 0
    /\ parquet_non_ip_out = NoFile
    /\ parquet_non_reflexive_out = NoFile
    /\ parquet_reflexive_out = NoFile
    /\ parquet_in = <<>> /\ shard = 0
    /\ io_fails = {}
    /\ palp_parquet = NoFile
    /\ palp_info = PolytopeInfo_default
    /\ \E dim \in {3, 4}, n \in 0..MaxPolytopes, wide \in WideCoordinates :
          \E counts \in [1..n -> {dim, dim + 1, dim + 2}] :
             /\ polytope_info = PalpTextInfo(dim, counts, wide)
             /\ \/ pc = "palp_format" /\ palp_text = <<>>
                \/ /\ n > 0
                   /\ pc = "palp_parse"
                   /\ \E by_rows \in BOOLEAN, excess \in {0, 1} :
                         palp_text =
                            RawPalpText(polytope_info, by_rows, excess)

NextPalpText == FormatPalp \/ ParsePalp

SpecPalpText == InitPalpText /\ [][NextPalpText]_vars

-----------------------------------------------------------------------------
(* Conversions during which the file system refuses a write                *)

\* the outputs of the two conversions
BinaryOutputs == {"ws_out", "polytope_info_out"}

ColumnarOutputs ==
    {"parquet_non_ip_out", "parquet_non_reflexive_out",
     "parquet_reflexive_out"}

\* a conversion to the binary pair or to the columnar files, about to
\* write, with at least one of its outputs refused
InitFaults ==
    /\ VarintIdle
    /\ \/ /\ DatasetInMemory
          /\ ColumnarFilesIdle
          /\ dimension = 4
          /\ io_fails \in (SUBSET BinaryOutputs) \ {{}}
       \/ /\ TiersInMemory
          /\ read_dimension = 4
          /\ io_fails \in (SUBSET ColumnarOutputs) \ {{}}

NextFaults ==
    \/ WriteWeightsBegin
    \/ MergeNonIp
    \/ MergeNonReflexive
    \/ MergeReflexive
    \/ MergeSpin
    \/ WriteWeightsEnd
    \/ WriteParquetNonIp
    \/ WriteParquetNonReflexive
    \/ WriteParquetReflexive

SpecFaults == InitFaults /\ [][NextFaults]_vars

-----------------------------------------------------------------------------
(* Binary pairs split into tiers and merged back                           *)
(* (read_weights, read_polytope_info, then write_weights on the tiers)     *)

\* the most records of a pair that is split and merged back
MaxSplitRecords == 3

\* (dimension, derived quantities, index numerator, index denominator)
SplitConfigs == {<<4, FALSE, 7, 1>>, <<6, TRUE, 3, 4>>}

\* the records the info stream of such a pair is made of: tag 0, tag 1 with
\* three counts, tag 2 with four counts and the Hodge numbers, and tag 1
\* with a point count of 2^31
SplitRecordKinds == {"non_ip", "non_reflexive", "reflexive", "beyond_i32"}

\* record number k of the given kind, every varint written by write_varint;
\* the second non-reflexive record holds the largest i32 as its point count
SplitRecordBytes(dim, kind, k) ==
    IF kind = "non_ip" THEN <<0>>
    ELSE IF kind = "non_reflexive"
    THEN <<1>> \o WriteVarints(<<10 + k, 200 + k,
                                 IF k = 2 THEN MaxI32 ELSE 20000 + k>>)
    ELSE IF kind = "reflexive"
    THEN <<2>> \o WriteVarints(<<30 + k, 400 + k, 40000 + k, 3000000 + k>>)
               \o WriteVarints(SubSeq(HodgeOfRow(k), 1, dim - 3))
    ELSE <<1>> \o WriteVarints(<<10 + k, 200 + k>>) \o BigVarint

\* the weights file of the weight systems rows, in that order
WeightsFileOf(dim, num, den, rows) ==
    PutU32(U32FromNat(dim)) \o PutU32(U32FromI32(num))
        \o PutU32(U32FromI32(den)) \o PutU64(Len(rows))
        \o Flatten([k \in 1..Len(rows) |->
                       WriteVarints(WeightSystemOf(dim, rows[k]))])

\* the tuple read_polytope_info returned and the index of the header are
\* handed to write_weights(dimension, numerator, denominator, .., &non_ip,
\* &non_reflexive, &reflexive)
SplitToMerge ==
    /\ pc = "done"
    /\ outcome.kind = "ok"
    /\ non_ip = <<>>
    /\ dimension' = read_dimension
    /\ numerator' = I32FromU32(HeaderNumerator)
    /\ denominator' = I32FromU32(HeaderDenominator)
    /\ non_ip' = read_non_ip
    /\ non_reflexive' = read_non_reflexive
    /\ reflexive' = read_reflexive
    /\ pc' = "write_weights"
    /\ UNCHANGED include_derived_quantities
    /\ UNCHANGED <<varintVars, mergeVars, fileVars, readVars, columnarVars>>

\* a binary pair on disk: up to MaxSplitRecords weight systems in ascending
\* order, some of them possibly equal, and one record for each
InitSplit ==
    /\ VarintIdle
    /\ pc = "on_disk"
    /\ dimension = 0 /\ numerator = 0 /\ denominator = 0
    /\ non_ip = <<>> /\ non_reflexive = <<>> /\ reflexive = <<>>
    /\ non_ip_pos = 0 /\ non_reflexive_pos = 0 /\ reflexive_pos = 0
    /\ non_ip_weights = <<>> /\ non_reflexive_weights = <<>>
    /\ reflexive_weights = <<>>
    /\ ws_buf = <<>> /\ pi_buf = <<>>
    /\ \E c \in SplitConfigs, n \in 0..MaxSplitRecords :
          /\ include_derived_quantities = c[2]
          /\ \E rows \in [1..n -> 1..Len(Lead)],
                kinds \in [1..n -> SplitRecordKinds] :
                /\ IsAscending(rows)
                /\ ws_file = WeightsFileOf(c[1], c[3], c[4], rows)
                /\ pi_file = Flatten([k \in 1..n |->
                                SplitRecordBytes(c[1], kinds[k], k)])
    /\ limit = NoLimit
    /\ ReadIdle
    /\ ColumnarIdle

NextSplit ==
    \/ ReadWeights
    \/ ReadPolytopeInfoBegin
    \/ ReadPolytopeInfoRecord
    \/ ReadPolytopeInfoEnd
    \/ SplitToMerge
    \/ WriteWeightsBegin
    \/ MergeNonIp
    \/ MergeNonReflexive
    \/ MergeReflexive
    \/ MergeSpin
    \/ WriteWeightsEnd

SpecSplit == InitSplit /\ [][NextSplit]_vars

-----------------------------------------------------------------------------
(* Varint codec: properties                                                *)

\* the bytes write_varint produced: the buffer without the bytes after it
EncodedLen == Len(vbuf) - Len(vtail)

\* C1: varint round-trip.  For every encoded x, write_varint produces 1 to 5
\* bytes, every byte except the last with its high bit set; read_varint on
\* the buffer returns exactly x and stops right after those bytes.
C1_VarintRoundTrip ==
    /\ (vx # NoU32 /\ vpc \in {"decode", "done"}) =>
          /\ EncodedLen \in 1..5
          /\ \A i \in 1..(EncodedLen - 1) : vbuf[i] >= ContinuationBit
          /\ vbuf[EncodedLen] < ContinuationBit
    /\ (vx # NoU32 /\ vpc = "done") =>
          /\ vout.kind = "ok"
          /\ vout.value = vx
          /\ vout.next = EncodedLen + 1

\* C1 witness: 2^32 - 1 was encoded in five bytes, followed by other bytes,
\* and decoded back
C1_Witness ==
    /\ vpc = "done"
    /\ vx = LowOnes(U32Bits)
    /\ vtail = <<1, 128>>
    /\ EncodedLen = 5
    /\ vout.kind = "ok"
    /\ vout.value = vx

\* the index of the first byte of data from position at on without the
\* continuation bit, 0 when every byte from there on has it
TerminatorOf(data, at) ==
    IF \E i \in at..Len(data) : data[i] < ContinuationBit
    THEN CHOOSE i \in at..Len(data) :
            /\ data[i] < ContinuationBit
            /\ \A j \in at..(i - 1) : data[j] >= ContinuationBit
    ELSE 0

\* bit j (from 1) of the sum of g_i * 2^(7*(i-1)) over the groups from
\* position at up to the terminator, g_i the low seven bits of the i-th byte
SumBitOf(data, at, j) ==
    LET i == at + ((j - 1) \div GroupBits)
        b == (j - 1) % GroupBits
    IN  IF i <= TerminatorOf(data, at)
        THEN ((data[i] % ContinuationBit) \div PowersOfTwo[b + 1]) % 2
        ELSE 0

\* the sum needs no more than 32 bits
SumFitsU32Of(data, at) ==
    \A j \in (U32Bits + 1)..(GroupBits * (TerminatorOf(data, at) - at + 1)) :
        SumBitOf(data, at, j) = 0

Terminator == TerminatorOf(vbuf, 1)

SumBit(j) == SumBitOf(vbuf, 1, j)

SumFitsU32 == SumFitsU32Of(vbuf, 1)

\* C2: read_varint never silently truncates.  It returns the exact sum of
\* the 7-bit groups up to the first byte without continuation bit, or it
\* fails; it fails when the sum needs more than 32 bits, when the encoding
\* continues past the fifth byte, and when the stream ends before a byte
\* without the continuation bit.
C2_NoSilentTruncation ==
    vpc = "done" =>
      /\ vout.kind \in {"ok", "panic"}
      /\ vout.kind = "ok" =>
            /\ Terminator > 0
            /\ SumFitsU32
            /\ \A j \in 1..(U32Bits - 1) :
                  (vout.value.lo \div PowersOfTwo[j]) % 2 = SumBit(j)
            /\ vout.value.hi = SumBit(U32Bits)
            /\ vout.next = Terminator + 1
      /\ Terminator = 0 => vout.kind = "panic"
      /\ (Terminator > 0 /\ ~SumFitsU32) => vout.kind = "panic"
      /\ Terminator > 5 => vout.kind = "panic"

\* C2 witness: five bytes whose last group does not fit the four bits left
\* (16 * 2^28 = 2^32) were read and the read failed
C2_Witness ==
    /\ vpc = "done"
    /\ vx = NoU32
    /\ vbuf = <<143, 143, 143, 143, 16>>
    /\ ~SumFitsU32
    /\ vout.kind = "panic"

-----------------------------------------------------------------------------
(* Merge: properties                                                       *)

\* every varint of a stream from position at on, as u32 values; a stream
\* that does not decode ends with NoU32
RECURSIVE DecodeAll(_, _)
DecodeAll(data, at) ==
    IF at > Len(data) THEN <<>>
    ELSE LET r == read_varint(data, at)
         IN  IF r.kind = "ok" THEN <<r.value>> \o DecodeAll(data, r.next)
             ELSE <<NoU32>>

\* a sequence cut into consecutive groups of n; an incomplete last
\* group is dropped
RECURSIVE Chunks(_, _)
Chunks(seq, n) ==
    IF Len(seq) < n THEN <<>>
    ELSE <<SubSeq(seq, 1, n)>> \o Chunks(SubSeq(seq, n + 1, Len(seq)), n)

\* u32 values as integers (the weights of the model are below 2^31)
RECURSIVE ToInts(_)
ToInts(flat) ==
    IF Len(flat) = 0 THEN <<>>
    ELSE <<I32FromU32(flat[1])>> \o ToInts(Tail(flat))

\* the weights of a weight stream after its header, one u32 per weight
WeightsOf(buf) == DecodeAll(buf, HeaderLen + 1)

\* the weight systems of a weight stream, as u32 values and as integers
SystemsOf(buf) == Chunks(WeightsOf(buf), dimension)

SystemsIntOf(buf) == Chunks(ToInts(WeightsOf(buf)), dimension)

\* lexicographic order on weight systems of equal length
LexLess(a, b) ==
    \E i \in 1..Len(a) : a[i] < b[i] /\ \A j \in 1..(i - 1) : a[j] = b[j]

LexLeq(a, b) == a = b \/ LexLess(a, b)

\* the rows of a tier as weight systems
TierSystems(tier) ==
    {collect_weights_into(tier.weight_lists, r - 1) :
        r \in 1..Len(tier.weight_lists[1])}

\* no weight system is present in more than one tier
TiersDisjoint ==
    /\ TierSystems(non_ip) \cap TierSystems(non_reflexive) = {}
    /\ TierSystems(non_ip) \cap TierSystems(reflexive) = {}
    /\ TierSystems(non_reflexive) \cap TierSystems(reflexive) = {}

\* the fronts that are present (not exhausted)
PresentFronts ==
    {f \in {non_ip_weights, non_reflexive_weights, reflexive_weights} :
        f # <<>>}

\* a weight system was emitted by this step
Emission == pc = "merge" /\ pc' = "merge" /\ pi_buf' # pi_buf

\* C4: merge ordering.  With sorted tiers that share no weight system, the
\* weight stream written so far is ascending at every step, and every step
\* emits the least of the three current fronts, an exhausted front counting
\* as greater than every present one.
C4_MergeOrdering ==
    [][(pc' \in {"merge", "on_disk"} /\ TiersDisjoint) =>
        \A written \in {SystemsIntOf(ws_buf')} :
            /\ \A k \in 1..(Len(written) - 1) :
                  LexLeq(written[k], written[k + 1])
            /\ Emission =>
                  /\ Len(written) =
                        non_ip_pos + non_reflexive_pos + reflexive_pos + 1
                  /\ written[Len(written)] \in PresentFronts
                  /\ \A f \in PresentFronts :
                        LexLeq(written[Len(written)], f)]_vars

\* C4 witness: the tiers {[1,2]}, {[1,3],[2,1]}, {[0,9]} were merged and
\* the stream holds [0,9], [1,2], [1,3], [2,1]
C4_Witness ==
    /\ pc = "on_disk"
    /\ TiersDisjoint
    /\ SubSeq(non_ip.weight_lists, 1, 2) = <<<<1>>, <<2>>>>
    /\ SubSeq(non_reflexive.weight_lists, 1, 2) = <<<<1, 2>>, <<3, 1>>>>
    /\ SubSeq(reflexive.weight_lists, 1, 2) = <<<<0>>, <<9>>>>
    /\ \E written \in {SystemsIntOf(ws_buf)} :
          /\ Len(written) = 4
          /\ \A k \in 1..4 : SubSeq(written[k], 1, 2) = Lead[k]

\* a front that is present and not greater than any present front
IsLeastFront(f) == f # <<>> /\ \A g \in PresentFronts : LexLeq(f, g)

\* C5: merge termination and tie-break.  While a front is present the merge
\* advances: the loop of the first tier, in the order non-IP, non-reflexive,
\* reflexive, whose front is least runs, also when that front equals
\* another tier's front; so all fronts end up exhausted.
C5_TieBreakAdvances ==
    (pc = "merge" /\ MergeRunning) =>
        IF IsLeastFront(non_ip_weights) THEN NonIpLoopCondition
        ELSE IF IsLeastFront(non_reflexive_weights)
        THEN NonReflexiveLoopCondition
        ELSE ReflexiveLoopCondition

\* the records of the info stream: <<tag, fields>> with 0, 3 or
\* 4 + (dimension - 3) fields after tag 0, 1 or 2
InfoFieldCount(tag) ==
    IF tag = Zero32 THEN 0
    ELSE IF tag = U32FromNat(1) THEN 3
    ELSE 4 + (dimension - 3)

RECURSIVE InfoRecords(_)
InfoRecords(flat) ==
    IF Len(flat) = 0 THEN <<>>
    ELSE IF flat[1] \notin {Zero32, U32FromNat(1), U32FromNat(2)}
              \/ Len(flat) < 1 + InfoFieldCount(flat[1])
         THEN <<[tag |-> -1, fields |-> <<>>]>>
         ELSE <<[tag |-> I32FromU32(flat[1]),
                 fields |-> SubSeq(flat, 2, 1 + InfoFieldCount(flat[1]))]>>
                \o InfoRecords(SubSeq(flat, 2 + InfoFieldCount(flat[1]),
                                      Len(flat)))

WrittenRecords == InfoRecords(DecodeAll(pi_buf, 1))

\* how many of the first k records carry the tag
TagCount(recs, tag, k) == Cardinality({i \in 1..k : recs[i].tag = tag})

\* the weights and the auxiliary fields of row r (from 1) of a tier, as u32
RowWeights(tier, r) ==
    [i \in 1..Len(tier.weight_lists) |-> U32FromI32(tier.weight_lists[i][r])]

RowFields(tag, r) ==
    IF tag = 0 THEN <<>>
    ELSE IF tag = 1
    THEN <<U32FromI32(non_reflexive.vertex_count_list[r]),
           U32FromI32(non_reflexive.facet_count_list[r]),
           U32FromI32(non_reflexive.point_count_list[r])>>
    ELSE <<U32FromI32(reflexive.vertex_count_list[r]),
           U32FromI32(reflexive.facet_count_list[r]),
           U32FromI32(reflexive.point_count_list[r]),
           U32FromI32(reflexive.dual_point_count_list[r])>>
         \o [i \in 1..(dimension - 3) |->
                U32FromI32(reflexive.hodge_number_lists[i][r])]

TierOfTag(tag) ==
    IF tag = 0 THEN non_ip ELSE IF tag = 1 THEN non_reflexive ELSE reflexive

\* the u64 total_count of the header, most significant byte first
HeaderTotalCount ==
    LET b == SubSeq(ws_buf, 13, 20)
    IN  IF \E i \in 1..4 : b[i] # 0 THEN -1
        ELSE ((b[5] * 256 + b[6]) * 256 + b[7]) * 256 + b[8]

\* C6: lock-step alignment.  Throughout write_weights as many weight
\* systems as info records are written; the k-th record carries the tag and
\* the fields of the row its weight system was taken from, the rows of each
\* tier in their order; at the end every row is written once and
\* total_count is the sum of the tier sizes and the number of records.
C6_LockStep ==
    pc \in {"merge", "on_disk"} =>
      \A recs \in {WrittenRecords}, wts \in {WeightsOf(ws_buf)} :
        \A systems \in {Chunks(wts, dimension)} :
          /\ Len(wts) = Len(systems) * dimension
          /\ Len(recs) = Len(systems)
          /\ \A k \in 1..Len(recs) :
                /\ recs[k].tag \in 0..2
                /\ \A r \in {TagCount(recs, recs[k].tag, k)} :
                      /\ r <= Len(TierOfTag(recs[k].tag).weight_lists[1])
                      /\ systems[k] = RowWeights(TierOfTag(recs[k].tag), r)
                      /\ recs[k].fields = RowFields(recs[k].tag, r)
          /\ HeaderTotalCount =
                non_ip_count + non_reflexive_count + reflexive_count
          /\ pc = "on_disk" =>
                /\ \A tag \in 0..2 :
                      TagCount(recs, tag, Len(recs)) =
                          Len(TierOfTag(tag).weight_lists[1])
                /\ HeaderTotalCount = Len(recs)

\* C6 witness: a merge ended that interleaved two reflexive rows with rows
\* of both other tiers
C6_Witness ==
    /\ pc = "on_disk"
    /\ reflexive_pos = 2
    /\ non_ip_pos = 1
    /\ non_reflexive_pos = 1
    /\ \E recs \in {WrittenRecords} :
          /\ Len(recs) = 4
          /\ recs[1].tag = 2
          /\ recs[4].tag = 2

-----------------------------------------------------------------------------
(* Readers: properties                                                     *)

\* the file the read failed on
FailedFile == IF outcome.file = "weights" THEN ws_file ELSE pi_file

\* the varint that starts at position at of data is complete and the sum of
\* its groups needs more than 32 bits
VarintOverflows(data, at) ==
    /\ TerminatorOf(data, at) > 0
    /\ ~SumFitsU32Of(data, at)

\* C3: a varint that exceeds 32 bits is a typed error.  When read_weights or
\* read_polytope_info fails on a varint whose value exceeds the 32-bit
\* domain, the failure is an error returned to the caller; the process is
\* not aborted.
C3_OverflowIsTypedError ==
    (/\ pc = "failed"
     /\ outcome.at > 0
     /\ VarintOverflows(FailedFile, outcome.at)) => outcome.kind = "err"

\* the position after n varints that start at position at, each ending at
\* its first byte without continuation bit
RECURSIVE SkipVarints(_, _, _)
SkipVarints(data, at, n) ==
    IF n = 0 THEN at
    ELSE SkipVarints(data, TerminatorOf(data, at) + 1, n - 1)

\* the sum of the groups of the varint that starts at position at
RECURSIVE VarintSum(_, _)
VarintSum(data, at) ==
    IF data[at] < ContinuationBit THEN data[at]
    ELSE (data[at] % ContinuationBit)
            + ContinuationBit * VarintSum(data, at + 1)

\* the sums of n varints that start at position at
RECURSIVE VarintSums(_, _, _)
VarintSums(data, at, n) ==
    IF n = 0 THEN <<>>
    ELSE <<VarintSum(data, at)>>
            \o VarintSums(data, TerminatorOf(data, at) + 1, n - 1)

\* the varints a record of the tag carries in dimension dim
VarintsOfTag(tag, dim) ==
    IF tag = 0 THEN 0 ELSE IF tag = 1 THEN 3 ELSE 3 + 1 + (dim - 3)

\* the group of read_dimension weights number c (from 0)
WeightGroup(c) ==
    [i \in 1..read_dimension |-> weights[c * read_dimension + i]]

\* the tier after one more row: the weight system in the weight columns,
\* the values in the named columns
RowAppended(before, after, ws, columns, values) ==
    /\ after.dimension = before.dimension
    /\ \A i \in 1..read_dimension :
          after.weight_lists[i] = Append(before.weight_lists[i], ws[i])
    /\ \A k \in 1..Len(columns) :
          after[columns[k]] = Append(before[columns[k]], values[k])

CountColumns == <<"vertex_count_list", "facet_count_list", "point_count_list">>

\* a pass of the record loop that went on to the next record
RecordRead == pc = "read_records" /\ pc' = "read_records"

\* C8: info reader dispatch.  Every record read consumes one tag and the
\* next group of `dimension` weights and appends that weight system to
\* exactly one tier, at its end: tag 0 to the non-IP tier, no further byte
\* read; tag 1 to the non-reflexive tier with the 3 varints that follow;
\* tag 2 to the reflexive tier with the 3 + 1 + (dimension - 3) varints that
\* follow, the last dimension - 3 of them its Hodge numbers.
C8_ReaderDispatch ==
    [][RecordRead =>
        \A tag \in {pi_file[cursor]} :
          /\ tag \in 0..2
          /\ chunk' = chunk + 1
          /\ cursor' = SkipVarints(pi_file, cursor + 1,
                                   VarintsOfTag(tag, read_dimension))
          /\ \A values \in {VarintSums(pi_file, cursor + 1,
                                       VarintsOfTag(tag, read_dimension))} :
                /\ tag = 0 =>
                      /\ cursor' = cursor + 1
                      /\ RowAppended(read_non_ip, read_non_ip',
                                     WeightGroup(chunk), <<>>, <<>>)
                      /\ UNCHANGED <<read_non_reflexive, read_reflexive>>
                /\ tag = 1 =>
                      /\ RowAppended(read_non_reflexive, read_non_reflexive',
                                     WeightGroup(chunk), CountColumns, values)
                      /\ UNCHANGED <<read_non_ip, read_reflexive>>
                /\ tag = 2 =>
                      /\ RowAppended(read_reflexive, read_reflexive',
                                     WeightGroup(chunk),
                                     CountColumns \o <<"dual_point_count_list">>,
                                     values)
                      /\ \A i \in 1..(read_dimension - 3) :
                            read_reflexive'.hodge_number_lists[i] =
                                Append(read_reflexive.hodge_number_lists[i],
                                       values[4 + i])
                      /\ UNCHANGED <<read_non_ip, read_non_reflexive>>]_vars

\* C8 witness: a stream of a reflexive, a non-reflexive and a non-IP record
\* in five dimensions was read to its end
C8_Witness ==
    /\ pc = "done"
    /\ read_dimension = 5
    /\ chunk = 3
    /\ pi_file[1] = 2
    /\ Len(read_non_ip.weight_lists[1]) = 1
    /\ read_non_reflexive.point_count_list = <<20001>>
    /\ read_reflexive.hodge_number_lists = <<<<2>>, <<86>>>>

\* the next record of the stream has a tag that is none of 0, 1, 2
InvalidTagNext ==
    /\ pc = "read_records"
    /\ chunk * read_dimension < Len(weights)
    /\ cursor <= Len(pi_file)
    /\ pi_file[cursor] \notin 0..2

\* C9: invalid tag.  When the tag of the next record is none of 0, 1, 2,
\* read_polytope_info fails with the error that names the invalid tag,
\* returned to the caller, whatever bytes follow the tag (including none),
\* and no tier data is returned.
C9_InvalidTagIsFormatError ==
    [][InvalidTagNext =>
        /\ pc' = "failed"
        /\ outcome'.kind = "err"
        /\ outcome'.msg = "invalid polytope type"
        /\ read_non_ip' = NoTier
        /\ read_non_reflexive' = NoTier
        /\ read_reflexive' = NoTier]_vars

\* C10: derived quantities.  In six dimensions with derived quantities
\* requested, every reflexive record read appends
\* h22 = 44 + 4*h11 + 4*h13 - 2*h12 and
\* euler_characteristic = 48 + 6*(h11 - h12 + h13), h11, h12, h13 the first
\* three Hodge numbers stored in that record; in every other case there is
\* no h22 list and no Euler value, and no other record appends either.
C10_DerivedQuantities ==
    [][RecordRead =>
        IF pi_file[cursor] = 2
        THEN
          \A h \in {VarintSums(pi_file,
                               SkipVarints(pi_file, cursor + 1, 4),
                               read_dimension - 3)} :
            IF read_dimension = 6 /\ include_derived_quantities
            THEN /\ Len(read_reflexive'.hodge_number_lists) = 4
                 /\ read_reflexive'.hodge_number_lists[4] =
                       Append(read_reflexive.hodge_number_lists[4],
                              44 + 4 * h[1] + 4 * h[3] - 2 * h[2])
                 /\ read_reflexive'.euler_characteristic_list =
                       Append(read_reflexive.euler_characteristic_list,
                              48 + 6 * (h[1] - h[2] + h[3]))
            ELSE /\ Len(read_reflexive'.hodge_number_lists) =
                       read_dimension - 3
                 /\ read_reflexive'.euler_characteristic_list = <<>>
        ELSE UNCHANGED read_reflexive]_vars

\* C10 witness: in six dimensions with derived quantities two reflexive
\* records with the Hodge numbers (2, 86, 300) and (1, 0, 129) were read
C10_Witness ==
    /\ pc = "done"
    /\ read_dimension = 6
    /\ include_derived_quantities
    /\ read_reflexive.hodge_number_lists =
          <<<<2, 1>>, <<86, 0>>, <<300, 129>>, <<1080, 564>>>>
    /\ read_reflexive.euler_characteristic_list = <<1344, 828>>

\* the pair was decoded: the header, the weight array and the tiers are
\* those of the dataset that was encoded
DecodedIsDataset ==
    /\ read_dimension = dimension
    /\ index = FormatIndex(U32FromI32(numerator), U32FromI32(denominator))
    /\ Len(weights) =
          (non_ip_count + non_reflexive_count + reflexive_count) * dimension
    /\ weights = ToInts(WeightsOf(ws_file))
    /\ read_non_ip = non_ip
    /\ read_non_reflexive = non_reflexive
    /\ read_reflexive = reflexive

\* C7: binary pair round-trip.  For every dataset of dimension 4, 5 or 6
\* with sorted tiers, write_weights goes on until it has written the pair,
\* and read_weights and read_polytope_info on that pair yield the header,
\* the weight array and the tiers of the dataset, h22 and the Euler
\* characteristic included in six dimensions with derived quantities.
C7_PairRoundTrip ==
    /\ (pc = "merge" /\ MergeRunning) =>
          \/ NonIpLoopCondition
          \/ NonReflexiveLoopCondition
          \/ ReflexiveLoopCondition
    /\ pc # "failed"
    /\ pc = "done" => DecodedIsDataset

\* the metadata of a file is complete and names a tier
MetadataAccepted(file) ==
    /\ file.exists
    /\ Len(file.metadata) > 0
    /\ parse_parquet_metadata(file.metadata).kind = "ok"
    /\ LET meta == parse_parquet_metadata(file.metadata)
       IN  (meta.ip \/ ~meta.is_reflexive) /\ meta.dimension >= 3

\* the columns the flags of an accepted file announce
ExpectedColumns(file) ==
    LET meta == parse_parquet_metadata(file.metadata)
    IN  IF ~meta.ip THEN meta.dimension
        ELSE IF ~meta.is_reflexive THEN meta.dimension + 3
        ELSE 2 * meta.dimension + 1

\* some row group of the file holds another number of columns
ColumnCountDiffers(file) ==
    \E g \in 1..Len(file.row_groups) :
        Len(file.row_groups[g].columns) # ExpectedColumns(file)

\* the file main handed to read_parquet last, when that call has returned
LastShard ==
    IF pc = "failed" /\ outcome.file = "parquet_in"
    THEN parquet_in[shard + 1]
    ELSE parquet_in[shard]

ShardReturned ==
    \/ pc = "failed" /\ outcome.file = "parquet_in"
    \/ pc \in {"read_parquet", "write_weights"} /\ shard > 0

RECURSIVE FileColumn(_, _)
FileColumn(row_groups, c) ==
    IF Len(row_groups) = 0 THEN <<>>
    ELSE row_groups[1].columns[c].values \o FileColumn(Tail(row_groups), c)

\* the first n columns of a file, each cut to the row limit
FirstColumns(file, n) ==
    [c \in 1..n |->
        SubSeq(FileColumn(file.row_groups, c), 1,
               Min(FileNumRows(file.row_groups), limit))]

\* the lists of the tier that the flags of the file name, in column order
\* and without derived quantities, as they are in memory
TierListsOf(file) ==
    LET meta == parse_parquet_metadata(file.metadata)
    IN  IF ~meta.ip THEN NonIpColumnLists(non_ip)
        ELSE IF ~meta.is_reflexive
        THEN NonReflexiveColumnLists(non_reflexive)
        ELSE ReflexiveColumnLists(reflexive, meta.dimension, FALSE)

SomeKeyAbsent(file) ==
    \E key \in MetadataKeys :
        \A i \in 1..Len(file.metadata) : file.metadata[i].key # key

\* a key is present with a value that is no bool, no usize, or no index
SomeValueUnparsable(file) ==
    \/ \E key \in {"ip", "reflexive"} :
          /\ LastValue(file.metadata, key).some
          /\ ~ParseBool(LastValue(file.metadata, key).value).ok
    \/ /\ LastValue(file.metadata, "dimension").some
       /\ ~ParseUsize(LastValue(file.metadata, "dimension").value).ok
    \/ /\ LastValue(file.metadata, "index").some
       /\ ~parse_index(LastValue(file.metadata, "index").value).ok

\* the file declares reflexive = true with ip = false
FlagsContradict(file) ==
    /\ LastValue(file.metadata, "ip").some
    /\ LastValue(file.metadata, "ip").value = BoolText(FALSE)
    /\ LastValue(file.metadata, "reflexive").some
    /\ LastValue(file.metadata, "reflexive").value = BoolText(TRUE)

MetadataDefect(file) ==
    SomeKeyAbsent(file) \/ SomeValueUnparsable(file) \/ FlagsContradict(file)

\* C15: read_parquet on a file that lacks one of the keys ip, reflexive,
\* dimension, index, or holds a value that cannot be parsed, or declares
\* reflexive = true with ip = false, returns an error and leaves the three
\* tier structures as they were; for an absent key the error is "missing
\* Parquet file metadata".
C15_MetadataRefused ==
    [][(/\ pc = "read_parquet"
        /\ shard < Len(parquet_in)
        /\ MetadataDefect(parquet_in[shard + 1]))
          => /\ pc' = "failed"
             /\ outcome'.kind = "err"
             /\ non_ip' = non_ip
             /\ non_reflexive' = non_reflexive
             /\ reflexive' = reflexive
             /\ (/\ SomeKeyAbsent(parquet_in[shard + 1])
                 /\ Len(parquet_in[shard + 1].metadata) > 0)
                   => outcome'.msg = "missing Parquet file metadata"
             /\ (/\ ~SomeKeyAbsent(parquet_in[shard + 1])
                 /\ ~SomeValueUnparsable(parquet_in[shard + 1]))
                   => outcome'.msg = "invalid metadata"]_vars

\* a file that lacks a key was refused after a file of records was read
C15_Witness ==
    /\ pc = "failed"
    /\ outcome.kind = "err"
    /\ outcome.msg = "missing Parquet file metadata"
    /\ shard > 0
    /\ SomeKeyAbsent(parquet_in[shard + 1])
    /\ TierCount(reflexive) > 0

\* the later run has read the three files, or has failed reading one
ReadBack ==
    \/ pc = "write_weights" /\ shard = Len(parquet_in) /\ shard > 0
    \/ pc = "failed" /\ outcome.file = "parquet_in"

\* the tiers read back are the tiers that were written, list by list
TiersReproduced ==
    /\ non_ip = read_non_ip
    /\ non_reflexive = read_non_reflexive
    /\ reflexive = read_reflexive

\* the metadata read back is the metadata written: the flags of each file
\* name its tier, the dimension and the index are those of the dataset
MetadataReproduced ==
    /\ \A k \in 1..Len(parquet_in) :
          LET meta == parse_parquet_metadata(parquet_in[k].metadata)
          IN  /\ meta.kind = "ok"
              /\ meta.ip = (k > 1)
              /\ meta.is_reflexive = (k > 2)
              /\ meta.dimension = read_dimension
    /\ dimension = read_dimension
    /\ numerator >= 0 /\ denominator >= 0
    /\ FormatIndex(U32FromNat(numerator), U32FromNat(denominator)) = index

\* C16: for every row-group size and every dataset with each tier
\* non-empty, write_parquet followed by read_parquet on the three files
\* reproduces the column arrays of every tier, in the same row order, and
\* the metadata, also when the rows span several row groups.
C16_ColumnarRoundTrip ==
    (/\ ReadBack
     /\ TierCount(read_non_ip) > 0
     /\ TierCount(read_non_reflexive) > 0
     /\ TierCount(read_reflexive) > 0)
        => /\ pc = "write_weights"
           /\ TiersReproduced
           /\ MetadataReproduced

\* the tier the flags of an accepted file name
TierKind(file) ==
    LET meta == parse_parquet_metadata(file.metadata)
    IN  IF ~meta.ip THEN "non_ip"
        ELSE IF ~meta.is_reflexive THEN "non_reflexive" ELSE "reflexive"

\* the columns of the files of one tier among the first k files of
\* parquet_in, file after file in read order; <<>> if there is none
RECURSIVE Accumulated(_, _)
Accumulated(k, kind) ==
    IF k = 0 THEN <<>>
    ELSE IF TierKind(parquet_in[k]) # kind THEN Accumulated(k - 1, kind)
    ELSE IF Len(Accumulated(k - 1, kind)) = 0
    THEN FirstColumns(parquet_in[k], ExpectedColumns(parquet_in[k]))
    ELSE [c \in 1..Len(Accumulated(k - 1, kind)) |->
            Accumulated(k - 1, kind)[c]
              \o FirstColumns(parquet_in[k],
                              ExpectedColumns(parquet_in[k]))[c]]

\* files were read, all of them of one dimension
ShardsOfOneDimension ==
    /\ pc \in {"read_parquet", "write_weights"}
    /\ shard > 0
    /\ \A k \in 1..shard :
          parse_parquet_metadata(parquet_in[k].metadata).dimension
              = dimension

\* a tier holds the records of the files of its kind read so far, or none
HoldsAccumulated(lists, count, kind) ==
    IF Len(Accumulated(shard, kind)) = 0 THEN count = 0
    ELSE lists = Accumulated(shard, kind)

\* the dimension and the index passed on are those of the last file read
LastFilePropagated ==
    LET meta == parse_parquet_metadata(parquet_in[shard].metadata)
    IN  /\ dimension = meta.dimension
        /\ numerator = meta.numerator
        /\ denominator = meta.denominator

\* C17: after reading files one after another into the same tier
\* structures, each tier holds the records of every file of that tier read
\* so far, in read order (so a file of one tier leaves the other tiers as
\* they were and a second file of a tier adds to the first), and the
\* dimension and index are those of the last file.
C17_ShardsAccumulate ==
    ShardsOfOneDimension =>
        /\ HoldsAccumulated(NonIpColumnLists(non_ip), TierCount(non_ip),
                            "non_ip")
        /\ HoldsAccumulated(NonReflexiveColumnLists(non_reflexive),
                            TierCount(non_reflexive), "non_reflexive")
        /\ HoldsAccumulated(ReflexiveColumnLists(reflexive, dimension, FALSE),
                            TierCount(reflexive), "reflexive")
        /\ LastFilePropagated

-----------------------------------------------------------------------------
(* palp columnar files: properties                                         *)

\* the vertex counts of the records of row group g of the file written
GroupCounts(g) ==
    SubSeq(polytope_info.vertex_count_list,
           (g - 1) * row_group_size + 1,
           Min(g * row_group_size, Len(polytope_info.vertex_count_list)))

\* the level of coordinate p (from 1) of records of the given vertex
\* counts: 0 where a record starts, 1 where a later vertex starts, else 2
RECURSIVE LevelAt(_, _, _)
LevelAt(counts, dim, p) ==
    IF p > counts[1] * dim THEN LevelAt(Tail(counts), dim, p - counts[1] * dim)
    ELSE IF p = 1 THEN 0
    ELSE IF p % dim = 1 \/ dim = 1 THEN 1
    ELSE 2

\* C18: in every row group the palp writer emits one repetition level and
\* one definition level per coordinate: repetition level 0 for the first
\* coordinate of the first vertex of a record, 1 for the first coordinate
\* of every later vertex, 2 for every other coordinate, and the constant
\* definition level 2; the level-0 entries of a group are as many as its
\* records; 3 vertices of dimension 2 give [0,2,1,2,1,2].
C18_RepetitionLevels ==
    /\ coordinate_repetition_levels(<<3>>, 2) = <<0, 2, 1, 2, 1, 2>>
    /\ palp_parquet.exists =>
          \A g \in 1..Len(palp_parquet.row_groups) :
              LET column == palp_parquet.row_groups[g].columns[1]
                  n == CoordinateCount(GroupCounts(g),
                                       polytope_info.dimension)
              IN  /\ Len(column.values) = n
                  /\ Len(column.repetition_levels) = n
                  /\ Len(column.definition_levels) = n
                  /\ \A p \in 1..n :
                        /\ column.definition_levels[p] = 2
                        /\ column.repetition_levels[p] =
                              LevelAt(GroupCounts(g),
                                      polytope_info.dimension, p)
                  /\ Cardinality({p \in 1..n :
                                    column.repetition_levels[p] = 0})
                        = palp_parquet.row_groups[g].num_rows

\* a file of several row groups was written, one of them with several
\* records of different vertex counts
C18_Witness ==
    /\ palp_parquet.exists
    /\ Len(palp_parquet.row_groups) = 2
    /\ palp_parquet.row_groups[1].num_rows = 2
    /\ polytope_info.vertex_count_list[1] # polytope_info.vertex_count_list[2]
    /\ palp_parquet.row_groups[1].columns[1].repetition_levels[
          polytope_info.vertex_count_list[1] * polytope_info.dimension + 1]
          = 0

\* the coordinates before record r (from 1) of a PolytopeInfo
RECURSIVE RecordOffset(_, _)
RecordOffset(info, r) ==
    IF r = 1 THEN 0
    ELSE RecordOffset(info, r - 1)
            + info.vertex_count_list[r - 1] * info.dimension

\* the vertex_count x dimension matrix of record r of a PolytopeInfo
MatrixOf(info, r) ==
    [v \in 1..info.vertex_count_list[r] |->
        [i \in 1..info.dimension |->
            info.coordinate_list[RecordOffset(info, r)
                                   + (v - 1) * info.dimension + i]]]

\* the rows of a matrix one after the other
RECURSIVE FlattenMatrix(_)
FlattenMatrix(matrix) ==
    IF Len(matrix) = 0 THEN <<>>
    ELSE matrix[1] \o FlattenMatrix(Tail(matrix))

\* the matrices of records first..last of a PolytopeInfo, flattened
RECURSIVE FlattenRecords(_, _, _)
FlattenRecords(info, first, last) ==
    IF first > last THEN <<>>
    ELSE FlattenMatrix(MatrixOf(info, first))
            \o FlattenRecords(info, first + 1, last)

\* the repetition levels of the vertices column over all row groups
RECURSIVE FileLevels(_)
FileLevels(row_groups) ==
    IF Len(row_groups) = 0 THEN <<>>
    ELSE row_groups[1].columns[1].repetition_levels
            \o FileLevels(Tail(row_groups))

\* the positions (from 1) at which the records, and the vertices, of a
\* PolytopeInfo start in its coordinate list
RecordStarts(info) ==
    {RecordOffset(info, r) + 1 : r \in 1..Len(info.vertex_count_list)}

VertexStarts(info) ==
    UNION {{RecordOffset(info, r) + (v - 1) * info.dimension + 1 :
                v \in 1..info.vertex_count_list[r]} :
            r \in 1..Len(info.vertex_count_list)}

\* C19: the records written by the palp writer and read by the palp reader
\* have, record by record, the identical vertex_count x dimension matrix;
\* the records and the vertices start where the levels 0 and 1 of the file
\* say; and the coordinates written in each row group are exactly the
\* coordinates of the records of that group.
C19_NestedListRoundTrip ==
    /\ palp_parquet.exists =>
          \A g \in 1..Len(palp_parquet.row_groups) :
              palp_parquet.row_groups[g].columns[1].values =
                  FlattenRecords(
                      polytope_info, (g - 1) * row_group_size + 1,
                      Min(g * row_group_size,
                          Len(polytope_info.vertex_count_list)))
    /\ pc = "palp_read" =>
          /\ palp_info.dimension = polytope_info.dimension
          /\ Len(palp_info.vertex_count_list)
                = Len(polytope_info.vertex_count_list)
          /\ \A r \in 1..Len(polytope_info.vertex_count_list) :
                MatrixOf(palp_info, r) = MatrixOf(polytope_info, r)
          /\ Len(palp_info.coordinate_list)
                = Len(FileLevels(palp_parquet.row_groups))
          /\ RecordStarts(palp_info) =
                {p \in 1..Len(palp_info.coordinate_list) :
                    FileLevels(palp_parquet.row_groups)[p] = 0}
          /\ VertexStarts(palp_info) =
                {p \in 1..Len(palp_info.coordinate_list) :
                    FileLevels(palp_parquet.row_groups)[p] \in {0, 1}}

\* records of different vertex counts were read back from several row
\* groups, a record of the second group being larger than the first record
C19_Witness ==
    /\ pc = "palp_read"
    /\ Len(palp_parquet.row_groups) = 3
    /\ Len(palp_info.vertex_count_list) = 3
    /\ palp_info.vertex_count_list[1] < palp_info.vertex_count_list[2]
    /\ MatrixOf(palp_info, 3) = MatrixOf(polytope_info, 3)

\* the run has ended with the Err of a refused write
WriteRefused == pc = "failed" /\ outcome.kind = "err" /\ outcome.msg = "io"

\* the output files the run has left on disk
OutputsRetained ==
    {f \in BinaryOutputs \cup ColumnarOutputs :
        \/ f = "ws_out" /\ Len(ws_file) > 0
        \/ f = "polytope_info_out" /\ Len(pi_file) > 0
        \/ f = "parquet_non_ip_out" /\ parquet_non_ip_out.exists
        \/ f = "parquet_non_reflexive_out" /\ parquet_non_reflexive_out.exists
        \/ f = "parquet_reflexive_out" /\ parquet_reflexive_out.exists}

\* C20: when a write of a conversion fails, the run ends with an error and
\* none of the output files written earlier in the run is retained.
C20_NoPartialResults == WriteRefused => OutputsRetained = {}

-----------------------------------------------------------------------------
(* Tier structures: properties                                             *)

\* the column arrays of a tier: its weight columns, its count columns and
\* its Hodge-number columns
TierColumns(tier) ==
    tier.weight_lists
      \o (IF "vertex_count_list" \in DOMAIN tier
          THEN <<tier.vertex_count_list, tier.facet_count_list,
                 tier.point_count_list>>
          ELSE <<>>)
      \o (IF "dual_point_count_list" \in DOMAIN tier
          THEN <<tier.dual_point_count_list>> \o tier.hodge_number_lists
          ELSE <<>>)

\* all column arrays of the tier have one length, and there are dim weight
\* columns
TierShaped(tier, dim) ==
    /\ Len(tier.weight_lists) = dim
    /\ \A i, j \in 1..Len(TierColumns(tier)) :
          Len(TierColumns(tier)[i]) = Len(TierColumns(tier)[j])

\* read_polytope_info returned its three tiers
PolytopeInfoReturned == pc = "done" /\ outcome.kind = "ok" /\ shard = 0

\* one or more read_parquet calls returned Ok and none failed
ParquetReadSucceeded ==
    pc \in {"read_parquet", "write_weights"} /\ shard > 0

\* C21: tier shape.  In every tier returned by read_polytope_info, and in
\* every tier after any sequence of successful read_parquet calls, whatever
\* dimensions the files declare, all column arrays of the tier (weight
\* columns, count columns, Hodge-number columns) have the same length, and
\* the tier has as many weight columns as the dimension passed on to the
\* merge.
C21_TierShape ==
    /\ PolytopeInfoReturned =>
          /\ TierShaped(read_non_ip, read_dimension)
          /\ TierShaped(read_non_reflexive, read_dimension)
          /\ TierShaped(read_reflexive, read_dimension)
    /\ ParquetReadSucceeded =>
          /\ TierShaped(non_ip, dimension)
          /\ TierShaped(non_reflexive, dimension)
          /\ TierShaped(reflexive, dimension)

-----------------------------------------------------------------------------
(* Split and merge back: properties                                        *)

\* the weight systems of a weights file, by the dimension of its header
FileSystems(file) ==
    Chunks(ToInts(WeightsOf(file)), AsUsize(GetU32(file, 1)))

\* the weight systems of the pair on disk are strictly ascending
PairStrictlyAscending ==
    \A s \in {FileSystems(ws_file)} :
        \A i \in 1..(Len(s) - 1) : LexLess(s[i], s[i + 1])

\* every tag and every varint of the info stream on disk is below 2^31
InfoFitsI32 ==
    \A d \in {DecodeAll(pi_file, 1)} : \A i \in DOMAIN d : FitsI32(d[i])

\* the rows of a tier, in the order the tier holds them
TierRowsOf(tier) ==
    [r \in 1..TierCount(tier) |->
        collect_weights_into(tier.weight_lists, r - 1)]

\* the rows a tier holds are ascending
TierSorted(tier) ==
    \A r \in 1..(TierCount(tier) - 1) :
        LexLeq(TierRowsOf(tier)[r], TierRowsOf(tier)[r + 1])

\* read_polytope_info returned and write_weights has not been called yet
SplitReturned == pc = "done" /\ outcome.kind = "ok" /\ non_ip = <<>>

\* the merge of the tiers is complete, its buffers not yet written
MergedBack == pc = "merge" /\ ~MergeRunning

\* the split and the merge went through and reproduce the pair on disk
SplitMergeReproduces ==
    /\ pc # "failed"
    /\ SplitReturned =>
          /\ TierSorted(read_non_ip)
          /\ TierSorted(read_non_reflexive)
          /\ TierSorted(read_reflexive)
    /\ (pc = "merge" /\ MergeRunning) =>
          \/ NonIpLoopCondition
          \/ NonReflexiveLoopCondition
          \/ ReflexiveLoopCondition
    /\ MergedBack =>
          /\ FileSystems(ws_buf) = FileSystems(ws_file)
          /\ pi_buf = pi_file

\* C22 as stated: for every well-formed binary pair (canonical varints,
\* tags 0, 1, 2) with strictly ascending weight systems, read_weights and
\* read_polytope_info followed by write_weights on the tiers reproduce the
\* weight systems and, byte for byte, the info stream, and every tier of
\* the split is sorted ascending.
C22_DecodeEncodeIdentity == SplitMergeReproduces \/ ~PairStrictlyAscending

\* C22, amended: the same for pairs in which, besides, every varint is
\* below 2^31.
C22_DecodeEncodeIdentityI32 ==
    SplitMergeReproduces \/ ~(PairStrictlyAscending /\ InfoFitsI32)

\* C22 witness: a pair of three records, one of each tag and the
\* non-reflexive one with the largest i32 as its point count, was split into
\* three tiers of one row and merged back
C22_Witness ==
    /\ MergedBack
    /\ PairStrictlyAscending
    /\ InfoFitsI32
    /\ TierCount(non_ip) = 1
    /\ TierCount(non_reflexive) = 1
    /\ TierCount(reflexive) = 1
    /\ non_reflexive.point_count_list = <<MaxI32>>
    /\ Len(pi_buf) > 3
    /\ pi_buf = pi_file

-----------------------------------------------------------------------------
(* palp texts: properties                                                  *)

\* parse_palp went through the text, or gave it up
ParseEnded == pc \in {"palp_parsed", "failed"}

\* the text is the one format_palp made of polytope_info
TextFormatted ==
    \E r \in {format_palp(polytope_info)} :
        r.kind = "ok" /\ palp_text = r.text

\* the text holds the records of polytope_info, laid out one way or the
\* other, the header of the last record announcing excess vertices too many
TextRaw(by_rows, excess) ==
    /\ Len(polytope_info.vertex_count_list) > 0
    /\ palp_text = RawPalpText(polytope_info, by_rows, excess)

\* every record has more vertices than the dimension
MoreVerticesThanDimension ==
    \A i \in 1..Len(polytope_info.vertex_count_list) :
        polytope_info.vertex_count_list[i] > polytope_info.dimension

\* parse_palp returned the dimension, the vertex counts and the
\* vertex-major coordinates of the records of polytope_info
ParsedAsGiven ==
    /\ pc = "palp_parsed"
    /\ palp_info.dimension = polytope_info.dimension
    /\ palp_info.vertex_count_list = polytope_info.vertex_count_list
    /\ palp_info.coordinate_list = polytope_info.coordinate_list

\* parse_palp refused the text for its vertex count
RefusedForVertexCount ==
    pc = "failed" /\ outcome.kind = "err"
        /\ outcome.msg = "invalid vertex count"

\* C23: orientation handling.  parse_palp takes the smaller of rows and
\* columns as the dimension and the larger as the vertex count, and stores
\* the coordinates vertex after vertex whether the matrix holds a vertex in
\* each row or in each column; it refuses a record whose header announces
\* another vertex count; and for every record list whose records have more
\* vertices than the dimension, parse_palp of the text of format_palp
\* returns the same dimension, vertex counts and coordinate list.
C23_Orientation ==
    ParseEnded =>
        /\ TextRaw(TRUE, 0) => ParsedAsGiven
        /\ (TextRaw(FALSE, 0) /\ MoreVerticesThanDimension) => ParsedAsGiven
        /\ (TextRaw(TRUE, 1) \/ TextRaw(FALSE, 1)) => RefusedForVertexCount
        /\ (TextFormatted /\ MoreVerticesThanDimension) => ParsedAsGiven

=============================================================================
